---- MODULE Spec2Model ----
(***************************************************************************)
(* Verification model of the manuscript-support scripts:                   *)
(*   scripts/analyze_table.py          (grade classification, Gini,        *)
(*                                      temporal bucketing, field parsing) *)
(*   scripts/analyze_clinical.py       (sampling-rate / ADC parsing)       *)
(*   scripts/split_article_sections.py (heading-based segmentation)        *)
(*   scripts/split_reviewer_comments.py(reviewer / comment segmentation)   *)
(*                                                                         *)
(* Text is a sequence of one-character strings.  A CSV cell is such a      *)
(* sequence or the missing value NaN.  Parsed numbers are exact decimal    *)
(* fractions [num, den]; optional results are records [some, val].         *)
(***************************************************************************)
EXTENDS Integers, Sequences, FiniteSets, TLC

VARIABLES
    script,          \* which script this run executes
    pc,              \* position of the running script
    row,             \* the catalog row the current iteration works on
    nrows,           \* len(df)
    i,               \* number of rows / sections / items already iterated
    grades,          \* classify_all_devices: grades
    device_grades,   \* classify_all_devices: device_grades
    result,          \* the value produced by the finished call
    values,          \* calculate_lorenz_gini: the list of study counts
    df,              \* analyze_temporal_trends: the rows iterated so far
    trends,          \* analyze_temporal_trends: trends
    texto_completo,  \* the text of the document being split
    section_positions, \* split_article_into_sections: section_positions
    sections,        \* the dict a splitter returns
    files,           \* the output directory: path -> content
    opened,          \* every path opened for writing, in order
    spans,           \* every slice [from, to) of the text taken for a file
    all_items,       \* split_reviewer_comments: all_items
    value,           \* the cell a field helper is called on
    csv_file,        \* the rows of the device catalog CSV on disk
    csv_reads,       \* how many times the run has read the CSV from disk
    devices,         \* analyze_*.py: devices
    prices,          \* analyze_prices.py: prices
    faixas,          \* analyze_prices.py: faixas
    sampling_ranges, \* analyze_clinical.py: sampling_ranges
    clinical_profile, \* analyze_clinical.py: clinical_profile
    sensor_types,    \* analyze_industrial.py: sensor_types
    industrial_candidates, \* analyze_industrial.py: industrial_candidates
    df_full,         \* generate_timeline.py: df_full
    data,            \* generate_timeline.py / extract_pdf_to_json.py: data
    doc,             \* extract_text_from_pdf: the pages of the opened document
    pdf_files,       \* process_all_pdfs: pdf_files, each with what opening it yields
    processed,       \* process_all_pdfs: processed
    json_files,      \* the output directory of process_all_pdfs: name -> content
    log              \* process_all_pdfs: the lines printed, in order

textVars == <<texto_completo, section_positions, sections, files, opened, spans>>
catalogVars ==
    <<csv_file, csv_reads, devices, prices, faixas, sampling_ranges, clinical_profile,
      sensor_types, industrial_candidates, df_full>>
pdfVars == <<data, doc, pdf_files, processed, json_files, log>>

vars == <<script, pc, row, nrows, i, grades, device_grades, result, values,
          df, trends, textVars, all_items, value, catalogVars, pdfVars>>

----------------------------------------------------------------------------
(* Bounds of the model *)

MaxRows == 2
MaxValues == 3
MaxStudies == 3
MaxTrendRows == 2
MaxPieces == 5
MaxReviewPieces == 4
MaxCellPieces == 3
MaxTimelineRows == 2
MaxPdfs == 2
MaxPages == 2
MaxDevices == 2
MaxCorrRows == 3

----------------------------------------------------------------------------
(* Python values *)

NaN == <<"NaN">>
None == [some |-> FALSE]
Some(v) == [some |-> TRUE, val |-> v]
NoRow == [none |-> TRUE]

\* bool(x) of an optional int / optional float: None and zero are falsy
TruthyInt(x) == x.some /\ x.val # 0
TruthyFloat(x) == x.some /\ x.val.num # 0

\* decimal fractions
Frac(n, d) == [num |-> n, den |-> d]
FracLt(a, b) == a.num * b.den < b.num * a.den
FracGt(a, b) == FracLt(b, a)
FromInt(n) == Frac(n, 1)

----------------------------------------------------------------------------
(* Python str operations *)

Digits == <<"0", "1", "2", "3", "4", "5", "6", "7", "8", "9">>
IsDigit(c) == \E d \in 1..10 : Digits[d] = c
DigitVal(c) == (CHOOSE d \in 1..10 : Digits[d] = c) - 1
IsSpace(c) == c \in {" ", "\n", "\t"}

Upper == <<"A","B","C","D","E","F","G","H","I","J","K","L","M","N","O","P","Q","R","S","T","U","V","W","X","Y","Z">>
LowerCase == <<"a","b","c","d","e","f","g","h","i","j","k","l","m","n","o","p","q","r","s","t","u","v","w","x","y","z">>
LowerChar(c) == IF \E k \in 1..26 : Upper[k] = c
                THEN LowerCase[CHOOSE k \in 1..26 : Upper[k] = c]
                ELSE c

\* str(value): the missing value prints as 'nan'
Str(v) == IF v = NaN THEN <<"n", "a", "n">> ELSE v

\* s.lower()
Lower(s) == [k \in 1..Len(s) |-> LowerChar(s[k])]

\* k in s
Contains(s, k) ==
    \E p \in 0..(Len(s) - Len(k)) : SubSeq(s, p + 1, p + Len(k)) = k

\* s.strip()
LStripAt(s) ==
    IF \E p \in 1..Len(s) : ~IsSpace(s[p])
    THEN CHOOSE p \in 1..Len(s) : ~IsSpace(s[p]) /\ \A q \in 1..(p - 1) : IsSpace(s[q])
    ELSE Len(s) + 1
RStripAt(s) ==
    IF \E p \in 1..Len(s) : ~IsSpace(s[p])
    THEN CHOOSE p \in 1..Len(s) : ~IsSpace(s[p]) /\ \A q \in (p + 1)..Len(s) : IsSpace(s[q])
    ELSE 0
Strip(s) == SubSeq(s, LStripAt(s), RStripAt(s))

\* s.replace(c, '') for a single character c
RECURSIVE Remove(_, _)
Remove(s, c) ==
    IF s = <<>> THEN <<>>
    ELSE IF Head(s) = c THEN Remove(Tail(s), c)
    ELSE <<Head(s)>> \o Remove(Tail(s), c)

\* int(n) of a string of digits
RECURSIVE ToInt(_)
ToInt(s) ==
    IF s = <<>> THEN 0
    ELSE 10 * ToInt(SubSeq(s, 1, Len(s) - 1)) + DigitVal(s[Len(s)])

\* length of the maximal run of digits of s starting at position p
RECURSIVE DigitRun(_, _)
DigitRun(s, p) ==
    IF p <= Len(s) /\ IsDigit(s[p]) THEN 1 + DigitRun(s, p + 1) ELSE 0

\* re.findall(r'\d+', s), converted with int
RECURSIVE FindInts(_, _)
FindInts(s, p) ==
    IF p > Len(s) THEN <<>>
    ELSE IF IsDigit(s[p])
         THEN <<ToInt(SubSeq(s, p, p + DigitRun(s, p) - 1))>>
                  \o FindInts(s, p + DigitRun(s, p))
         ELSE FindInts(s, p + 1)

SeqMax(q) == CHOOSE m \in {q[k] : k \in 1..Len(q)} : \A k \in 1..Len(q) : q[k] <= m
SeqMin(q) == CHOOSE m \in {q[k] : k \in 1..Len(q)} : \A k \in 1..Len(q) : m <= q[k]

RECURSIVE Pow10(_)
Pow10(k) == IF k = 0 THEN 1 ELSE 10 * Pow10(k - 1)

\* float(s) for the decimal literals [+-]digits[.digits]; any other text of
\* the catalog (words, ranges, '---') raises ValueError, reported as None
ParseFloat(s) ==
    LET signed == s # <<>> /\ s[1] \in {"+", "-"}
        body   == IF signed THEN Tail(s) ELSE s
        ip     == DigitRun(body, 1)
        dot    == ip < Len(body) /\ body[ip + 1] = "."
        fp     == IF dot THEN DigitRun(body, ip + 2) ELSE 0
        used   == ip + (IF dot THEN 1 + fp ELSE 0)
        endsAtDot == ip + 1 = Len(body) /\ ip > 0 /\ body[ip + 1] = "."
        mag    == ToInt(SubSeq(body, 1, ip)) * Pow10(fp)
                      + ToInt(SubSeq(body, ip + 2, ip + 1 + fp))
    IN  IF (ip + fp > 0 /\ used = Len(body)) \/ endsAtDot
        THEN Some(Frac(IF signed /\ s[1] = "-" THEN 0 - mag ELSE mag,
                       IF endsAtDot THEN 1 ELSE Pow10(fp)))
        ELSE None

----------------------------------------------------------------------------
(* analyze_table.py: field parsing *)

\* extract_number(value, get_max)
extract_number(v, get_max) ==
    IF v = NaN THEN None
    ELSE LET nums == FindInts(Str(v), 1)
         IN  IF nums = <<>> THEN None
             ELSE Some(IF get_max THEN SeqMax(nums) ELSE SeqMin(nums))

PricePlaceholders == {<<"-", "-", "-">>, <<"-">>, <<>>, <<"n", "a", "n">>}

\* extract_price with 0.0 standing for a price that is not given
extract_price_zero_default(v) ==
    IF v = NaN THEN Some(Frac(0, 1))
    ELSE LET p_str == Strip(Str(v))
         IN  IF p_str \in PricePlaceholders THEN Some(Frac(0, 1))
             ELSE ParseFloat(Strip(Remove(Remove(Remove(Remove(p_str, ">"), "<"), ","), "$")))

\* extract_price(value)
extract_price(v) ==
    IF v = NaN THEN None
    ELSE LET p_str == Strip(Str(v))
         IN  IF p_str \in PricePlaceholders THEN None
             ELSE ParseFloat(Strip(Remove(Remove(Remove(Remove(p_str, ">"), "<"), ","), "$")))

----------------------------------------------------------------------------
(* analyze_table.py: grade classification *)

ResearchPrice == 2000
ResearchChannels == 16
ConsumerPrice == 500
ConsumerChannels == 8
ModelNameLen == 40

clinical_keywords ==
    { <<"f", "d", "a">>,
      <<"m", "e", "d", "i", "c", "a", "l">>,
      <<"c", "l", "i", "n", "i", "c", "a", "l">>,
      <<"c", "e", " ", "m", "a", "r", "k">>,
      <<"c", "e", "r", "t", "i", "f", "i", "e", "d">> }

\* is_clinical = any(k in aux.lower() for k in clinical_keywords)
is_clinical(r) ==
    \E k \in clinical_keywords : Contains(Lower(Lower(Str(r.aux))), k)

\* the 'Research' tests of classify_grade, in the order of the code
research_by_price(price) == TruthyFloat(price) /\ FracGt(price.val, FromInt(ResearchPrice))
research_by_channels(channels) == TruthyInt(channels) /\ channels.val > ResearchChannels
research_by_sensor(sensor_type) ==
    Contains(sensor_type, <<"w", "e", "t">>) /\ Contains(sensor_type, <<"g", "e", "l">>)

\* the 'Consumer' tests of classify_grade, in the order of the code
consumer_by_price(price) == TruthyFloat(price) /\ FracLt(price.val, FromInt(ConsumerPrice))
consumer_by_channels(channels) == TruthyInt(channels) /\ channels.val <= ConsumerChannels
consumer_by_sensor(sensor_type) ==
    Contains(sensor_type, <<"d", "r", "y">>) \/ Contains(sensor_type, <<"s", "e", "m", "i">>)

\* classify_grade with every listed auxiliary capability taken as a clinical one
classify_grade_any_aux(r) ==
    LET price       == extract_price(r.price)
        channels    == extract_number(r.channels, TRUE)
        sensor_type == Lower(Str(r.sensor_type))
    IN  IF r.aux # NaN THEN "Clinical"
        ELSE IF research_by_price(price) THEN "Research"
        ELSE IF research_by_channels(channels) THEN "Research"
        ELSE IF research_by_sensor(sensor_type) THEN "Research"
        ELSE IF consumer_by_price(price) THEN "Consumer"
        ELSE IF consumer_by_channels(channels) THEN "Consumer"
        ELSE IF consumer_by_sensor(sensor_type) THEN "Consumer"
        ELSE "Research"

\* classify_grade(row)
classify_grade(r) ==
    LET price       == extract_price(r.price)
        channels    == extract_number(r.channels, TRUE)
        sensor_type == Lower(Str(r.sensor_type))
    IN  IF is_clinical(r) THEN "Clinical"
        ELSE IF research_by_price(price) THEN "Research"
        ELSE IF research_by_channels(channels) THEN "Research"
        ELSE IF research_by_sensor(sensor_type) THEN "Research"
        ELSE IF consumer_by_price(price) THEN "Consumer"
        ELSE IF consumer_by_channels(channels) THEN "Consumer"
        ELSE IF consumer_by_sensor(sensor_type) THEN "Consumer"
        ELSE "Research"

\* str(row.get('Model', 'Unknown')).split('\n')[0][:40]
model_name(r) ==
    LET s  == Str(r.model)
        nl == IF \E p \in 1..Len(s) : s[p] = "\n"
              THEN (CHOOSE p \in 1..Len(s) : s[p] = "\n" /\ \A q \in 1..(p - 1) : s[q] # "\n") - 1
              ELSE Len(s)
    IN  SubSeq(s, 1, IF nl < ModelNameLen THEN nl ELSE ModelNameLen)

\* round(100 * v / n, 1), in tenths of a percent (ties to even)
RoundDiv(a, b) ==
    LET q == a \div b
        r == a % b
    IN  IF 2 * r > b \/ (2 * r = b /\ q % 2 = 1) THEN q + 1 ELSE q
percentage(v, n) == RoundDiv(1000 * v, n)

Grades == {"Consumer", "Research", "Clinical"}

\* cells of the catalog the classification reads
PriceCells ==
    { NaN, <<"0">>, <<"4", "9", "9">>, <<"2", "0", "0", "0">>,
      <<"$", "2", ",", "5", "0", "0">> }
ChannelCells ==
    { NaN, <<"0">>, <<"8">>, <<"1", "6">>, <<"8", "-", "3", "2">> }
SensorCells ==
    { NaN, <<"D", "r", "y">>, <<"W", "e", "t">>, <<"W", "e", "t", "/", "G", "e", "l">>,
      <<"S", "e", "m", "i">> }
AuxCells == { NaN, <<"I", "M", "U">>, <<"F", "D", "A">> }
ModelCells == { <<"M", "u", "s", "e", "\n", "S">> }

Rows ==
    [price : PriceCells, channels : ChannelCells, sensor_type : SensorCells,
     aux : AuxCells, model : ModelCells]

\* classify_grade and the model name of every row, tabulated once
grade_of == [r \in Rows |-> classify_grade(r)]
name_of == [r \in Rows |-> model_name(r)]

NoGrades == [g \in Grades |-> 0]

GradeIdle ==
    /\ row = NoRow /\ nrows = 0 /\ i = 0
    /\ grades = NoGrades /\ device_grades = <<>>

GiniIdle == values = <<>>
TrendIdle == df = <<>> /\ trends = <<>>
HelperIdle == value = <<>>
CatalogIdle ==
    /\ csv_file = <<>>
    /\ csv_reads = 0
    /\ devices = <<>>
    /\ prices = <<>>
    /\ faixas = <<>>
    /\ sampling_ranges = <<>>
    /\ clinical_profile = <<>>
    /\ sensor_types = <<>>
    /\ industrial_candidates = <<>>
    /\ df_full = <<>>
PdfIdle ==
    /\ data = <<>>
    /\ doc = <<>>
    /\ pdf_files = <<>>
    /\ processed = <<>>
    /\ json_files = <<>>
    /\ log = <<>>
TextIdle ==
    /\ texto_completo = <<>> /\ section_positions = <<>>
    /\ sections = <<>> /\ files = <<>> /\ opened = <<>> /\ spans = <<>>
    /\ all_items = <<>>

\* classify_all_devices(df): before the loop
InitGrade ==
    /\ script = "classify_all_devices"
    /\ pc = "loop"
    /\ GradeIdle
    /\ CatalogIdle
    /\ PdfIdle
    /\ HelperIdle
    /\ GiniIdle
    /\ TrendIdle
    /\ TextIdle
    /\ result = None

\* one iteration of `for _, row in df.iterrows()`; the catalog yields row r
ClassifyRow ==
    /\ script = "classify_all_devices" /\ pc = "loop"
    /\ i < MaxRows
    /\ \E r \in Rows :
         /\ row' = r
         /\ grades' = [grades EXCEPT ![grade_of[r]] = @ + 1]
         /\ device_grades' =
                Append(device_grades, [model |-> name_of[r], grade |-> grade_of[r]])
    /\ i' = i + 1
    /\ UNCHANGED <<script, pc, nrows, result, values, df, trends, textVars, all_items, value, catalogVars, pdfVars>>

\* the catalog is exhausted after at least one row: build the returned dict
ReturnGrades ==
    /\ script = "classify_all_devices" /\ pc = "loop"
    /\ i > 0
    /\ nrows' = i
    /\ pc' = "returned"
    /\ result' = Some([counts |-> grades,
                       percentages |-> [g \in Grades |-> percentage(grades[g], i)],
                       devices |-> device_grades])
    /\ UNCHANGED <<script, row, i, grades, device_grades, values, df, trends, textVars, all_items, value, catalogVars, pdfVars>>

\* the catalog has no rows: 100 * v / len(df) divides by zero
RaiseZeroDivision ==
    /\ script = "classify_all_devices" /\ pc = "loop"
    /\ i = 0
    /\ nrows' = 0
    /\ pc' = "raised"
    /\ result' = Some("ZeroDivisionError")
    /\ UNCHANGED <<script, row, i, grades, device_grades, values, df, trends, textVars, all_items, value, catalogVars, pdfVars>>

NextGrade == ClassifyRow \/ ReturnGrades \/ RaiseZeroDivision

SpecGrade == InitGrade /\ [][NextGrade]_vars

----------------------------------------------------------------------------
(* analyze_table.py: Lorenz curve and Gini coefficient *)

GiniDecimals == 4

\* sorted(values)
RECURSIVE Insert(_, _)
Insert(q, v) ==
    IF q = <<>> THEN <<v>>
    ELSE IF v <= Head(q) THEN <<v>> \o q
    ELSE <<Head(q)>> \o Insert(Tail(q), v)
RECURSIVE Sorted(_)
Sorted(q) == IF q = <<>> THEN <<>> ELSE Insert(Sorted(Tail(q)), Head(q))

\* np.cumsum(q)
RECURSIVE SumSeq(_)
SumSeq(q) == IF q = <<>> THEN 0 ELSE Head(q) + SumSeq(Tail(q))
CumSum(q) == [k \in 1..Len(q) |-> SumSeq(SubSeq(q, 1, k))]

\* 2 * np.trapz(y, x) for x = (1..n)/n and y = c/total, as a multiple of
\* 1/(n * total): the trapezoids between consecutive points of (x, y)
RECURSIVE TrapzTwice(_, _)
TrapzTwice(c, k) ==
    IF k >= Len(c) THEN 0 ELSE (c[k] + c[k + 1]) + TrapzTwice(c, k + 1)

\* calculate_lorenz_gini with the share of each value in place of the
\* cumulative share
lorenz_gini_shares(vals) ==
    LET sorted_values  == Sorted(vals)
        n              == Len(sorted_values)
        cumulative_sum == CumSum(sorted_values)
        total          == cumulative_sum[n]
        lorenz_y       == [k \in 1..n |-> Frac(sorted_values[k], total)]
        twice_area     == Frac(TrapzTwice(cumulative_sum, 1), n * total)
        gini           == Frac(twice_area.den - twice_area.num, twice_area.den)
    IN  [lorenz |-> lorenz_y,
         gini   |-> RoundDiv(Pow10(GiniDecimals) * gini.num, gini.den)]

\* calculate_lorenz_gini(values) for a non-empty list with positive total:
\* (lorenz_y.tolist(), round(gini, 4)), the Gini in units of 10^-4
lorenz_gini(vals) ==
    LET sorted_values  == Sorted(vals)
        n              == Len(sorted_values)
        cumulative_sum == CumSum(sorted_values)
        total          == cumulative_sum[n]
        lorenz_y       == [k \in 1..n |-> Frac(cumulative_sum[k], total)]
        twice_area     == Frac(TrapzTwice(cumulative_sum, 1), n * total)
        gini           == Frac(twice_area.den - twice_area.num, twice_area.den)
    IN  [lorenz |-> lorenz_y,
         gini   |-> RoundDiv(Pow10(GiniDecimals) * gini.num, gini.den)]

StudyLists == UNION { [1..n -> 0..MaxStudies] : n \in 0..MaxValues }

\* calculate_lorenz_gini(values): the call, for any list of study counts
InitGini ==
    /\ script = "calculate_lorenz_gini"
    /\ pc = "call"
    /\ GradeIdle
    /\ CatalogIdle
    /\ PdfIdle
    /\ HelperIdle
    /\ TrendIdle
    /\ TextIdle
    /\ values \in StudyLists
    /\ result = None

\* `if not values` / `if total == 0`: return None, None
ReturnNoGini ==
    /\ script = "calculate_lorenz_gini" /\ pc = "call"
    /\ (values = <<>> \/ SumSeq(values) = 0)
    /\ pc' = "returned"
    /\ result' = None
    /\ UNCHANGED <<script, row, nrows, i, grades, device_grades, values, df, trends, textVars, all_items, value, catalogVars, pdfVars>>

\* return lorenz_y.tolist(), round(gini, 4)
ReturnLorenzGini ==
    /\ script = "calculate_lorenz_gini" /\ pc = "call"
    /\ values # <<>> /\ SumSeq(values) # 0
    /\ pc' = "returned"
    /\ result' = Some(lorenz_gini(values))
    /\ UNCHANGED <<script, row, nrows, i, grades, device_grades, values, df, trends, textVars, all_items, value, catalogVars, pdfVars>>

NextGini == ReturnNoGini \/ ReturnLorenzGini

SpecGini == InitGini /\ [][NextGini]_vars

----------------------------------------------------------------------------
(* analyze_table.py: temporal trends *)

\* periods, in the insertion order of the dict
periods ==
    << [name |-> "2008-2014", start |-> 2008, end |-> 2014],
       [name |-> "2015-2018", start |-> 2015, end |-> 2018],
       [name |-> "2019-2022", start |-> 2019, end |-> 2022],
       [name |-> "2023-2025", start |-> 2023, end |-> 2025] >>

\* the test of the inner loop with the end of the range excluded
in_period_open_end(year, p) == periods[p].start <= year /\ year < periods[p].end

\* `if start <= year <= end`
in_period(year, p) == periods[p].start <= year /\ year <= periods[p].end

\* the period the inner loop stops at (break), 0 when it runs to its end
first_period(year) ==
    IF \E p \in 1..Len(periods) : in_period(year, p)
    THEN CHOOSE p \in 1..Len(periods) :
             in_period(year, p) /\ \A q \in 1..(p - 1) : ~in_period(year, q)
    ELSE 0

NewTrend ==
    [devices |-> 0, channels |-> <<>>, prices |-> <<>>,
     wireless_bluetooth |-> 0, wireless_wifi |-> 0]

\* the body of the inner loop for the matching period
count_device(t, r) ==
    LET channels == extract_number(r.channels, TRUE)
        price    == extract_price(r.price)
        wireless == Lower(Str(r.wireless))
        bt       == Contains(wireless, <<"b", "l", "u", "e", "t", "o", "o", "t", "h">>)
                        \/ Contains(wireless, <<"b", "l", "e">>)
        wifi     == Contains(wireless, <<"w", "i", "-", "f", "i">>)
                        \/ Contains(wireless, <<"w", "i", "f", "i">>)
    IN  [devices  |-> t.devices + 1,
         channels |-> IF TruthyInt(channels) THEN Append(t.channels, channels.val)
                      ELSE t.channels,
         prices   |-> IF TruthyFloat(price) THEN Append(t.prices, price.val)
                      ELSE t.prices,
         wireless_bluetooth |-> t.wireless_bluetooth + (IF bt THEN 1 ELSE 0),
         wireless_wifi      |-> t.wireless_wifi + (IF wifi THEN 1 ELSE 0)]

\* one iteration of the outer loop on row r
trend_step(tr, r) ==
    LET year == extract_number(r.year, TRUE)
    IN  IF ~year.some THEN tr
        ELSE IF first_period(year.val) = 0 THEN tr
        ELSE [tr EXCEPT ![first_period(year.val)] = count_device(@, r)]

\* float arithmetic on exact fractions
FracAdd(a, b) == Frac(a.num * b.den + b.num * a.den, a.den * b.den)
FracDiv(a, n) == Frac(a.num, a.den * n)
RECURSIVE FracSum(_)
FracSum(q) == IF q = <<>> THEN Frac(0, 1) ELSE FracAdd(Head(q), FracSum(Tail(q)))

\* costs_per_channel: zip(t['channels'], t['prices']), keeping ch > 0
RECURSIVE costs_per_channel(_, _)
costs_per_channel(chs, prs) ==
    IF chs = <<>> \/ prs = <<>> THEN <<>>
    ELSE (IF Head(chs) > 0 THEN <<FracDiv(Head(prs), Head(chs))>> ELSE <<>>)
             \o costs_per_channel(Tail(chs), Tail(prs))

\* the averages and percentages added to one period
summarize(t) ==
    LET costs == costs_per_channel(t.channels, t.prices)
    IN  [devices |-> t.devices, channels |-> t.channels, prices |-> t.prices,
         wireless_bluetooth |-> t.wireless_bluetooth,
         wireless_wifi |-> t.wireless_wifi,
         avg_channels |-> IF t.channels # <<>>
                          THEN Frac(SumSeq(t.channels), Len(t.channels)) ELSE Frac(0, 1),
         avg_price |-> IF t.prices # <<>>
                       THEN FracDiv(FracSum(t.prices), Len(t.prices)) ELSE Frac(0, 1),
         pct_bluetooth |-> IF t.devices > 0
                           THEN Frac(100 * t.wireless_bluetooth, t.devices) ELSE Frac(0, 1),
         pct_wifi |-> IF t.devices > 0
                      THEN Frac(100 * t.wireless_wifi, t.devices) ELSE Frac(0, 1),
         avg_cost_per_channel |->
             IF t.channels # <<>> /\ t.prices # <<>> /\ costs # <<>>
             THEN FracDiv(FracSum(costs), Len(costs)) ELSE Frac(0, 1)]

YearCells ==
    { NaN, <<"2", "0", "1", "4">>, <<"2", "0", "1", "5", ".", "0">>,
      <<"2", "0", "2", "2">>, <<"2", "0", "2", "3">>, <<"2", "0", "2", "6">> }
TrendChannelCells == { NaN, <<"4">>, <<"8">> }
TrendPriceCells == { NaN, <<"4", "0", "0">> }
WirelessCells == { <<"B", "L", "E", ",", " ", "W", "i", "-", "F", "i">> }

\* the rows the catalog can yield: every combination of year, channels and
\* price for a Bluetooth + Wi-Fi device, and one wired device
TrendRows ==
    [year : YearCells, channels : TrendChannelCells, price : TrendPriceCells,
     wireless : WirelessCells]
    \cup { [year |-> <<"2", "0", "1", "4">>, channels |-> <<"4">>, price |-> NaN,
            wireless |-> NaN] }

\* analyze_temporal_trends(df): before the loop
InitTrends ==
    /\ script = "analyze_temporal_trends"
    /\ pc = "loop"
    /\ GradeIdle
    /\ CatalogIdle
    /\ PdfIdle
    /\ HelperIdle
    /\ GiniIdle
    /\ TextIdle
    /\ df = <<>>
    /\ trends = [p \in 1..Len(periods) |-> NewTrend]
    /\ result = None

\* one iteration of `for _, row in df.iterrows()`; the catalog yields row r
TrendRow ==
    /\ script = "analyze_temporal_trends" /\ pc = "loop"
    /\ Len(df) < MaxTrendRows
    /\ \E r \in TrendRows :
         /\ df' = Append(df, r)
         /\ trends' = trend_step(trends, r)
    /\ UNCHANGED <<script, pc, row, nrows, i, grades, device_grades, result, values, textVars, all_items, value, catalogVars, pdfVars>>

\* the catalog is exhausted: compute the averages and return trends
ReturnTrends ==
    /\ script = "analyze_temporal_trends" /\ pc = "loop"
    /\ pc' = "returned"
    /\ trends' = [p \in 1..Len(periods) |-> summarize(trends[p])]
    /\ result' = Some(trends')
    /\ UNCHANGED <<script, row, nrows, i, grades, device_grades, values, df, textVars, all_items, value, catalogVars, pdfVars>>

NextTrends == TrendRow \/ ReturnTrends

SpecTrends == InitTrends /\ [][NextTrends]_vars

----------------------------------------------------------------------------
(* split_article_sections.py *)

\* section_patterns: r'^<word>\s*$' with re.MULTILINE | re.IGNORECASE, and the
\* section name; the words are kept in lower case for the case-blind match
section_patterns ==
    << [word |-> <<"a", "b", "s", "t", "r", "a", "c", "t">>,
        name |-> "Abstract"],
       [word |-> <<"k", "e", "y", "w", "o", "r", "d", "s">>,
        name |-> "Keywords"],
       [word |-> <<"i", "n", "t", "r", "o", "d", "u", "c", "t", "i", "o", "n">>,
        name |-> "Introduction"],
       [word |-> <<"b", "a", "c", "k", "g", "r", "o", "u", "n", "d">>,
        name |-> "Background"],
       [word |-> <<"m", "e", "t", "h", "o", "d">>,
        name |-> "Method"],
       [word |-> <<"r", "e", "s", "u", "l", "t", "s">>,
        name |-> "Results"],
       [word |-> <<"t", "a", "b", "l", "e", " ", "d", "e", "s", "c", "r", "i", "p", "t", "i", "o", "n">>,
        name |-> "Table_Description"],
       [word |-> <<"d", "i", "s", "c", "u", "s", "s", "i", "o", "n", " ", "o", "f", " ", "r", "e", "s", "u", "l", "t", "s">>,
        name |-> "Discussion"],
       [word |-> <<"l", "i", "m", "i", "t", "a", "t", "i", "o", "n", "s", " ", "o", "f", " ", "t", "e", "c", "h", "n", "o", "l", "o", "g", "i", "e", "s", " ", "e", "v", "a", "l", "u", "a", "t", "e", "d">>,
        name |-> "Limitations"],
       [word |-> <<"c", "o", "n", "c", "l", "u", "s", "i", "o", "n">>,
        name |-> "Conclusion"],
       [word |-> <<"a", "c", "k", "n", "o", "w", "l", "e", "d", "g", "m", "e", "n", "t">>,
        name |-> "Acknowledgment"],
       [word |-> <<"b", "i", "b", "l", "i", "o", "g", "r", "a", "p", "h", "y">>,
        name |-> "Bibliography"] >>

\* \s of a regular expression
IsReSpace(c) == c \in {" ", "\n", "\t", "\r"}

\* ^ and $ under re.MULTILINE, at the 0-based offset p of s
LineStart(s, p) == p = 0 \/ s[p] = "\n"
LineEnd(s, p) == p = Len(s) \/ s[p + 1] = "\n"

\* the offsets at which \s* can stop after offset p
SpaceStops(s, p) ==
    { e \in p..Len(s) : \A k \in (p + 1)..e : IsReSpace(s[k]) }

\* r'^word\s*$' matches at the 0-based offset p of s
MatchesAt(s, p, word) ==
    /\ LineStart(s, p)
    /\ p + Len(word) <= Len(s)
    /\ Lower(SubSeq(s, p + 1, p + Len(word))) = word
    /\ \E e \in SpaceStops(s, p + Len(word)) : LineEnd(s, e)

\* re.search(pattern, s, re.MULTILINE | re.IGNORECASE): the leftmost match,
\* its \s* as long as possible
search(s, word) ==
    IF \E p \in 0..Len(s) : MatchesAt(s, p, word)
    THEN LET start == CHOOSE p \in 0..Len(s) :
                          MatchesAt(s, p, word) /\ \A q \in 0..(p - 1) : ~MatchesAt(s, q, word)
             stops == { e \in SpaceStops(s, start + Len(word)) : LineEnd(s, e) }
         IN  Some([start |-> start,
                   end   |-> CHOOSE e \in stops : \A f \in stops : f <= e])
    ELSE None

\* the loop over section_patterns: one entry per pattern that matches
RECURSIVE find_sections(_, _)
find_sections(s, k) ==
    IF k > Len(section_patterns) THEN <<>>
    ELSE LET match == search(s, section_patterns[k].word)
         IN  (IF match.some
              THEN << [name  |-> section_patterns[k].name,
                       start |-> match.val.start,
                       end   |-> match.val.end] >>
              ELSE <<>>) \o find_sections(s, k + 1)

\* the list left in the order of section_patterns
positions_unsorted(q) == q

\* section_positions.sort(key=lambda x: x['start'])  (stable)
RECURSIVE InsertByStart(_, _)
InsertByStart(q, x) ==
    IF q = <<>> THEN <<x>>
    ELSE IF x.start < Head(q).start THEN <<x>> \o q
    ELSE <<Head(q)>> \o InsertByStart(Tail(q), x)
RECURSIVE SortByStart(_)
SortByStart(q) ==
    IF q = <<>> THEN <<>>
    ELSE InsertByStart(SortByStart(SubSeq(q, 1, Len(q) - 1)), q[Len(q)])
sort_positions(q) == SortByStart(q)

\* s[a:b]
Slice(s, a, b) == SubSeq(s, a + 1, b)

\* the content kept for a section: the stripped text without its first line,
\* or the stripped text itself when it has a single line
section_content_of(section_text) ==
    IF \E p \in 1..Len(section_text) : section_text[p] = "\n"
    THEN LET nl == CHOOSE p \in 1..Len(section_text) :
                       section_text[p] = "\n" /\ \A q \in 1..(p - 1) : section_text[q] # "\n"
         IN  Strip(SubSeq(section_text, nl + 1, Len(section_text)))
    ELSE section_text

\* str(n).zfill(2)
ZFill2(n) ==
    IF n < 10 THEN <<"0", Digits[n + 1]>>
    ELSE IF n < 100 THEN <<Digits[(n \div 10) + 1], Digits[(n % 10) + 1]>>
    ELSE <<Digits[(n \div 100) + 1], Digits[((n \div 10) % 10) + 1], Digits[(n % 10) + 1]>>

\* f"{order}_{section['name']}.txt"
section_filename(k, name) == ZFill2(k) \o <<"_", name, ".txt">>
TitleKey == <<"0", "0", "_", "Title">>
TitleFile == <<"0", "0", "_", "Title", ".txt">>

\* d[k] = v on a dict
DictSet(dict, k, v) ==
    [x \in (DOMAIN dict) \cup {k} |-> IF x = k THEN v ELSE dict[x]]
EmptyDict == <<>>

\* the article texts: up to MaxPieces pieces, headings, words and white space
ArticlePieces ==
    { <<"A", "b", "s", "t", "r", "a", "c", "t">>, <<"M", "e", "t", "h", "o", "d">>,
      <<"x">>, <<" ">>, <<"\n">> }
RECURSIVE Texts(_, _)
Texts(pieces, n) ==
    IF n = 0 THEN { <<>> }
    ELSE LET shorter == Texts(pieces, n - 1)
         IN  shorter \cup { t \o p : t \in shorter, p \in pieces }

ArticleTexts == Texts(ArticlePieces, MaxPieces)

\* split_article_into_sections(json_path, output_dir): the JSON is loaded
InitSplit ==
    /\ script = "split_article_into_sections"
    /\ pc = "start"
    /\ GradeIdle
    /\ CatalogIdle
    /\ PdfIdle
    /\ HelperIdle
    /\ GiniIdle
    /\ TrendIdle
    /\ texto_completo \in ArticleTexts
    /\ section_positions = <<>>
    /\ sections = EmptyDict /\ files = EmptyDict
    /\ opened = <<>> /\ spans = <<>>
    /\ all_items = <<>>
    /\ result = None

\* find and sort the headings, extract the title and write 00_Title.txt
WriteTitle ==
    /\ script = "split_article_into_sections" /\ pc = "start"
    /\ LET found      == sort_positions(find_sections(texto_completo, 1))
           title_end  == IF found # <<>> THEN found[1].start ELSE Len(texto_completo)
           title_text == Strip(Slice(texto_completo, 0, title_end))
       IN  /\ section_positions' = found
           /\ sections' = DictSet(EmptyDict, TitleKey, title_text)
           /\ files' = DictSet(files, TitleFile, title_text)
           /\ opened' = Append(opened, TitleFile)
           /\ spans' = Append(spans, [from |-> 0, to |-> title_end])
    /\ pc' = "sections"
    /\ UNCHANGED <<script, row, nrows, i, grades, device_grades, result, values,
                   df, trends, texto_completo, all_items, value, catalogVars, pdfVars>>

\* one iteration of `for i, section in enumerate(section_positions)`
WriteSection ==
    /\ script = "split_article_into_sections" /\ pc = "sections"
    /\ i < Len(section_positions)
    /\ LET section      == section_positions[i + 1]
           section_end  == IF i + 1 < Len(section_positions)
                           THEN section_positions[i + 2].start
                           ELSE Len(texto_completo)
           section_text == Strip(Slice(texto_completo, section.start, section_end))
           content      == section_content_of(section_text)
           filename     == section_filename(i + 1, section.name)
       IN  /\ sections' = DictSet(sections, filename, content)
           /\ files' = DictSet(files, filename, content)
           /\ opened' = Append(opened, filename)
           /\ spans' = Append(spans, [from |-> section.start, to |-> section_end])
    /\ i' = i + 1
    /\ UNCHANGED <<script, pc, row, nrows, grades, device_grades, result, values,
                   df, trends, texto_completo, section_positions, all_items, value, catalogVars, pdfVars>>

\* return sections
ReturnSections ==
    /\ script = "split_article_into_sections" /\ pc = "sections"
    /\ i = Len(section_positions)
    /\ pc' = "returned"
    /\ result' = Some(sections)
    /\ UNCHANGED <<script, row, nrows, i, grades, device_grades, values,
                   df, trends, textVars, all_items, value, catalogVars, pdfVars>>

NextSplit == WriteTitle \/ WriteSection \/ ReturnSections

SpecSplit == InitSplit /\ [][NextSplit]_vars

----------------------------------------------------------------------------
(* split_reviewer_comments.py *)

MaxOf(S) == CHOOSE m \in S : \A x \in S : x <= m
MinOf(S) == CHOOSE m \in S : \A x \in S : m <= x

\* the literal lit stands at position p of s (positions from 1)
LitAt(s, p, lit) ==
    p + Len(lit) - 1 <= Len(s) /\ SubSeq(s, p, p + Len(lit) - 1) = lit

DecisionLetter == <<"D", "e", "c", "i", "s", "i", "o", "n", " ", "L", "e", "t", "t", "e", "r">>
Reviewer1 == <<"R", "e", "v", "i", "e", "w", "e", "r", " ", "1">>
Reviewer2 == <<"R", "e", "v", "i", "e", "w", "e", "r", " ", "2">>
Reviewer3 == <<"R", "e", "v", "i", "e", "w", "e", "r", " ", "3">>
ReviewerSpace == <<"R", "e", "v", "i", "e", "w", "e", "r", " ">>
FinalStatement == <<"F", "I", "N", "A", "L", " ", "S", "T", "A", "T", "E", "M", "E", "N", "T">>
AdditionalQuestions == <<"A", "d", "d", "i", "t", "i", "o", "n", "a", "l", " ", "Q", "u", "e", "s", "t", "i", "o", "n", "s">>
CommentTag == <<"C">>
QuestionTag == <<"A", "Q">>

\* $ without re.MULTILINE: the end of s, or just before a final newline
EndAnchor(s, q) == q = Len(s) + 1 \/ (q = Len(s) /\ s[q] = "\n")

\* r'\s*\n' from position d: the position after the match (\s* as long as
\* possible), 0 when there is none
SpacesNewline(s, d) ==
    LET nls == { q \in d..Len(s) : s[q] = "\n" /\ \A k \in d..(q - 1) : IsReSpace(s[k]) }
    IN  IF nls = {} THEN 0 ELSE MaxOf(nls) + 1

\* r'R[123]<tag>\d+' at position p: the position after the match, 0 when none
CodeEnd(s, p, tag) ==
    IF /\ LitAt(s, p, <<"R">>)
       /\ p + 1 <= Len(s) /\ s[p + 1] \in {"1", "2", "3"}
       /\ LitAt(s, p + 2, tag)
       /\ DigitRun(s, p + 2 + Len(tag)) > 0
    THEN p + 2 + Len(tag) + DigitRun(s, p + 2 + Len(tag))
    ELSE 0

\* r'R[123]<tag>\d+\.' at position p
CodeDotAt(s, p, tag) ==
    CodeEnd(s, p, tag) # 0 /\ LitAt(s, CodeEnd(s, p, tag), <<".">>)

\* r'R[123]<tag>\d+\.?\s*\n' at position p: the position after the match
ItemHeadEnd(s, p, tag) ==
    IF CodeEnd(s, p, tag) = 0 THEN 0
    ELSE LET e == CodeEnd(s, p, tag)
         IN  SpacesNewline(s, IF LitAt(s, e, <<".">>) THEN e + 1 ELSE e)

\* the lookahead closing comment_pattern (tag C) and aq_pattern (tag AQ)
ItemStop(s, q, tag) ==
    \/ CodeDotAt(s, q, CommentTag)
    \/ CodeDotAt(s, q, QuestionTag)
    \/ (tag = CommentTag /\ LitAt(s, q, AdditionalQuestions))
    \/ (LitAt(s, q, ReviewerSpace) /\ q + Len(ReviewerSpace) <= Len(s)
            /\ IsDigit(s[q + Len(ReviewerSpace)]))
    \/ LitAt(s, q, FinalStatement)
    \/ EndAnchor(s, q)

\* re.findall(pattern, s, re.DOTALL) from position p, for comment_pattern
\* (tag C) and aq_pattern (tag AQ): the items, left to right, each ending
\* at the first position where the lookahead holds
RECURSIVE find_items(_, _, _)
find_items(s, p, tag) ==
    LET starts == { q \in p..Len(s) : ItemHeadEnd(s, q, tag) # 0 }
    IN  IF starts = {} THEN <<>>
        ELSE LET st   == MinOf(starts)
                 head == ItemHeadEnd(s, st, tag)
                 stop == MinOf({ q \in head..(Len(s) + 1) : ItemStop(s, q, tag) })
             IN  <<SubSeq(s, st, stop - 1)>> \o find_items(s, stop, tag)

\* re.match(r'(R[123](?:C|AQ)\d+)', item): the code, <<>> when none
item_code(item) ==
    IF CodeEnd(item, 1, CommentTag) # 0
    THEN SubSeq(item, 1, CodeEnd(item, 1, CommentTag) - 1)
    ELSE IF CodeEnd(item, 1, QuestionTag) # 0
    THEN SubSeq(item, 1, CodeEnd(item, 1, QuestionTag) - 1)
    ELSE <<>>

\* comments_dir / f"{code}.txt"
comment_path(code) == <<"Comentarios_Individuais", "/">> \o code \o <<".txt">>

\* r'^(Decision Letter.*?)(?=Reviewer 1)' with re.DOTALL
header_match(s) ==
    LET stops == { q \in (Len(DecisionLetter) + 1)..Len(s) : LitAt(s, q, Reviewer1) }
    IN  IF LitAt(s, 1, DecisionLetter) /\ stops # {}
        THEN Some(SubSeq(s, 1, MinOf(stops) - 1))
        ELSE None

\* reviewer_sections: the opening literal, whether r'\s*\n' must follow it,
\* the literal of the lookahead ($ is always an alternative) and the name
reviewer_sections ==
    << [open |-> Reviewer1, newline |-> TRUE, stop |-> Reviewer2, name |-> "Reviewer_1"],
       [open |-> Reviewer2, newline |-> TRUE, stop |-> Reviewer3, name |-> "Reviewer_2"],
       [open |-> Reviewer3, newline |-> TRUE, stop |-> FinalStatement, name |-> "Reviewer_3"],
       [open |-> FinalStatement, newline |-> FALSE, stop |-> <<>>, name |-> "Final_Statement"] >>

\* the position after the opening of reviewer section rs at p, 0 when none
SectionHeadEnd(s, p, rs) ==
    IF ~LitAt(s, p, rs.open) THEN 0
    ELSE IF rs.newline THEN SpacesNewline(s, p + Len(rs.open))
    ELSE p + Len(rs.open)

\* re.search(pattern, s, re.DOTALL).group(1) for reviewer section rs
section_match(s, rs) ==
    LET starts == { q \in 1..Len(s) : SectionHeadEnd(s, q, rs) # 0 }
    IN  IF starts = {} THEN None
        ELSE LET st   == MinOf(starts)
                 head == SectionHeadEnd(s, st, rs)
                 stop == MinOf({ q \in head..(Len(s) + 1) :
                                   (rs.stop # <<>> /\ LitAt(s, q, rs.stop)) \/ EndAnchor(s, q) })
             IN  Some(SubSeq(s, st, stop - 1))

\* the loop over reviewer_sections from entry k on, with the local `order`:
\* the files written, in order
RECURSIVE reviewer_files(_, _, _)
reviewer_files(s, k, order) ==
    IF k > Len(reviewer_sections) THEN <<>>
    ELSE LET match == section_match(s, reviewer_sections[k])
         IN  IF match.some
             THEN << [file    |-> ZFill2(order) \o <<"_", reviewer_sections[k].name, ".txt">>,
                      content |-> Strip(match.val)] >>
                      \o reviewer_files(s, k + 1, order + 1)
             ELSE reviewer_files(s, k + 1, order)

\* the header file, when the header matches
header_files(s) ==
    IF header_match(s).some
    THEN << [file    |-> <<"0", "0", "_", "Decision_Letter", ".txt">>,
             content |-> Strip(header_match(s).val)] >>
    ELSE <<>>

\* writing the files of a list, in order
RECURSIVE WriteAll(_, _)
WriteAll(dict, fs) ==
    IF fs = <<>> THEN dict
    ELSE WriteAll(DictSet(dict, Head(fs).file, Head(fs).content), Tail(fs))

ReviewPieces ==
    { <<"D", "e", "c", "i", "s", "i", "o", "n", " ", "L", "e", "t", "t", "e", "r", "\n">>,
      <<"R", "e", "v", "i", "e", "w", "e", "r", " ", "1", "\n">>,
      <<"R", "e", "v", "i", "e", "w", "e", "r", " ", "2", "\n">>,
      <<"F", "I", "N", "A", "L", " ", "S", "T", "A", "T", "E", "M", "E", "N", "T", "\n">>,
      <<"R", "1", "C", "1", ".", "\n">>,
      <<"R", "2", "C", "1", ".", "\n">>,
      <<"R", "1", "A", "Q", "1", ".", "\n">>,
      <<"x", "\n">> }
ReviewTexts == Texts(ReviewPieces, MaxReviewPieces)

\* split_reviewer_comments(json_path, output_dir): the JSON is loaded
InitReview ==
    /\ script = "split_reviewer_comments"
    /\ pc = "start"
    /\ GradeIdle
    /\ CatalogIdle
    /\ PdfIdle
    /\ HelperIdle
    /\ GiniIdle
    /\ TrendIdle
    /\ texto_completo \in ReviewTexts
    /\ section_positions = <<>>
    /\ sections = EmptyDict /\ files = EmptyDict
    /\ opened = <<>> /\ spans = <<>>
    /\ all_items = <<>>
    /\ result = None

\* the header, the reviewer sections, and the search for the comments
WriteReviewers ==
    /\ script = "split_reviewer_comments" /\ pc = "start"
    /\ LET written == header_files(texto_completo)
                          \o reviewer_files(texto_completo, 1, 1)
       IN  /\ sections' = WriteAll(sections, written)
           /\ files' = WriteAll(files, written)
           /\ opened' = opened \o [k \in 1..Len(written) |-> written[k].file]
    /\ all_items' = find_items(texto_completo, 1, CommentTag)
                        \o find_items(texto_completo, 1, QuestionTag)
    /\ pc' = "comments"
    /\ UNCHANGED <<script, row, nrows, i, grades, device_grades, result, values,
                   df, trends, texto_completo, section_positions, spans, value, catalogVars, pdfVars>>

\* one iteration of `for item in all_items`: <code>.txt is written when the
\* stripped item is not empty and starts with a code
WriteComment ==
    /\ script = "split_reviewer_comments" /\ pc = "comments"
    /\ i < Len(all_items)
    /\ LET item == Strip(all_items[i + 1])
       IN  IF item # <<>> /\ item_code(item) # <<>>
           THEN /\ files' = DictSet(files, comment_path(item_code(item)), item)
                /\ opened' = Append(opened, comment_path(item_code(item)))
           ELSE UNCHANGED <<files, opened>>
    /\ i' = i + 1
    /\ UNCHANGED <<script, pc, row, nrows, grades, device_grades, result, values,
                   df, trends, texto_completo, section_positions, sections, spans,
                   all_items, value, catalogVars, pdfVars>>

\* return sections
ReturnReview ==
    /\ script = "split_reviewer_comments" /\ pc = "comments"
    /\ i = Len(all_items)
    /\ pc' = "returned"
    /\ result' = Some(sections)
    /\ UNCHANGED <<script, row, nrows, i, grades, device_grades, values,
                   df, trends, textVars, all_items, value, catalogVars, pdfVars>>

NextReview == WriteReviewers \/ WriteComment \/ ReturnReview

SpecReview == InitReview /\ [][NextReview]_vars

----------------------------------------------------------------------------
(* analyze_clinical.py: field parsing *)

KiloHertz == 1000

\* a missing cell of csv.DictReader
PyNone == <<"None">>

\* r'(\d+(?:\.\d+)?)\s*(k?Hz)' with re.IGNORECASE at position p of s: the
\* value, the unit and the position after the match; [some |-> FALSE] if none
RateAt(s, p) ==
    LET ip    == DigitRun(s, p)
        dot   == ip > 0 /\ p + ip <= Len(s) /\ s[p + ip] = "." /\ DigitRun(s, p + ip + 1) > 0
        fp    == IF dot THEN DigitRun(s, p + ip + 1) ELSE 0
        q     == p + ip + (IF dot THEN 1 + fp ELSE 0)
        ws    == CHOOSE w \in 0..(Len(s) - q + 1) :
                     /\ \A k \in q..(q + w - 1) : IsReSpace(s[k])
                     /\ (q + w > Len(s) \/ ~IsReSpace(s[q + w]))
        u     == q + ws
        kilo  == u <= Len(s) /\ LowerChar(s[u]) = "k"
        h     == IF kilo THEN u + 1 ELSE u
        value0 == Frac(ToInt(SubSeq(s, p, p + ip - 1)) * Pow10(fp)
                          + ToInt(SubSeq(s, p + ip + 1, p + ip + fp)), Pow10(fp))
    IN  IF ip > 0 /\ h + 1 <= Len(s) /\ LowerChar(s[h]) = "h" /\ LowerChar(s[h + 1]) = "z"
        THEN [some |-> TRUE, kilo |-> kilo, value0 |-> value0, end |-> h + 2]
        ELSE [some |-> FALSE]

\* the one element of a singleton set
Only(S) == CHOOSE x \in S : TRUE

\* the rate of a match m, kHz multiplied by 1000
rate_of_match(m) ==
    IF m.kilo THEN Frac(m.value0.num * KiloHertz, m.value0.den) ELSE m.value0

\* the rates of re.findall from position p on
RECURSIVE find_rates(_, _)
find_rates(s, p) ==
    Only({ IF starts = {} THEN <<>>
           ELSE Only({ <<rate_of_match(m)>> \o find_rates(s, m.end) :
                       m \in { RateAt(s, MinOf(starts)) } }) :
           starts \in { { q \in p..Len(s) : RateAt(s, q).some } } })

\* max(rates)
FracMax(q) ==
    q[CHOOSE k \in 1..Len(q) : \A j \in 1..Len(q) : ~FracLt(q[k], q[j])]

\* extract_max_sampling_rate(sr_str)
extract_max_sampling_rate(sr_str) ==
    IF sr_str = PyNone \/ sr_str = <<>> \/ sr_str = <<"-", "-", "-">> THEN None
    ELSE Only({ IF rates # <<>> THEN Some(FracMax(rates)) ELSE None :
                rates \in { find_rates(sr_str, 1) } })

\* r'(\d+)-?bit' with re.IGNORECASE matches at position p of s
BitsAt(s, p) ==
    LET e == p + DigitRun(s, p)
        b == IF e <= Len(s) /\ s[e] = "-" THEN e + 1 ELSE e
    IN  /\ DigitRun(s, p) > 0
        /\ b + 2 <= Len(s)
        /\ Lower(SubSeq(s, b, b + 2)) = <<"b", "i", "t">>

\* extract_adc_resolution(adc_str)
extract_adc_resolution(adc_str) ==
    IF adc_str = PyNone \/ adc_str = <<>> \/ adc_str = <<"-", "-", "-">> THEN None
    ELSE LET starts == { q \in 1..Len(adc_str) : BitsAt(adc_str, q) }
         IN  IF starts = {} THEN None
             ELSE Some(ToInt(SubSeq(adc_str, MinOf(starts),
                                    MinOf(starts) + DigitRun(adc_str, MinOf(starts)) - 1)))

----------------------------------------------------------------------------
(* the field helpers, called on one cell *)

CellPieces ==
    { <<"-">>, <<"2">>, <<"5">>, <<".">>, <<" ">>, <<"k", "H", "z">>, <<"-", "b", "i", "t">> }
CellTexts == Texts(CellPieces, MaxCellPieces)

\* a helper is about to be called on a cell: text, NaN (pandas) or None (csv)
InitExtract ==
    /\ script = "field helpers"
    /\ pc = "call"
    /\ GradeIdle
    /\ CatalogIdle
    /\ PdfIdle
    /\ GiniIdle
    /\ TrendIdle
    /\ TextIdle
    /\ value \in CellTexts \cup {NaN, PyNone}
    /\ result = None

CallExtractPrice ==
    /\ script = "field helpers" /\ pc = "call"
    /\ value # PyNone
    /\ pc' = "extract_price"
    /\ result' = extract_price(value)
    /\ UNCHANGED <<script, row, nrows, i, grades, device_grades, values, df, trends,
                   textVars, all_items, value, catalogVars, pdfVars>>

CallExtractNumber ==
    /\ script = "field helpers" /\ pc = "call"
    /\ value # PyNone
    /\ \E get_max \in BOOLEAN :
         /\ pc' = (IF get_max THEN "extract_number(max)" ELSE "extract_number(min)")
         /\ result' = extract_number(value, get_max)
    /\ UNCHANGED <<script, row, nrows, i, grades, device_grades, values, df, trends,
                   textVars, all_items, value, catalogVars, pdfVars>>

CallExtractMaxSamplingRate ==
    /\ script = "field helpers" /\ pc = "call"
    /\ value # NaN
    /\ pc' = "extract_max_sampling_rate"
    /\ result' = extract_max_sampling_rate(value)
    /\ UNCHANGED <<script, row, nrows, i, grades, device_grades, values, df, trends,
                   textVars, all_items, value, catalogVars, pdfVars>>

CallExtractAdcResolution ==
    /\ script = "field helpers" /\ pc = "call"
    /\ value # NaN
    /\ pc' = "extract_adc_resolution"
    /\ result' = extract_adc_resolution(value)
    /\ UNCHANGED <<script, row, nrows, i, grades, device_grades, values, df, trends,
                   textVars, all_items, value, catalogVars, pdfVars>>

NextExtract ==
    \/ CallExtractPrice
    \/ CallExtractNumber
    \/ CallExtractMaxSamplingRate
    \/ CallExtractAdcResolution

SpecExtract == InitExtract /\ [][NextExtract]_vars

----------------------------------------------------------------------------
(* generate_timeline.py *)

\* extract_number(value) of generate_timeline.py: the first run of digits
timeline_extract_number(v) ==
    IF v = NaN THEN None
    ELSE LET nums == FindInts(Str(v), 1)
         IN  IF nums # <<>> THEN Some(nums[1]) ELSE None

\* the rows of the catalog as this script uses them: the year and channel
\* cells of a Bluetooth + Wi-Fi device, and one wired device
TimelineRows == { r \in TrendRows : r.price = NaN }
TimelineCatalogs == UNION { [1..n -> TimelineRows] : n \in 0..MaxTimelineRows }

\* the list `data` built by load_and_prepare_data from the rows q
RECURSIVE prepare_data(_)
prepare_data(q) ==
    IF q = <<>> THEN <<>>
    ELSE LET year == timeline_extract_number(Head(q).year)
         IN  (IF year.some THEN <<[year |-> year.val]>> ELSE <<>>)
                 \o prepare_data(Tail(q))

\* pd.to_numeric(cell, errors='coerce').between(start, end)
numeric_between(cell, p) ==
    LET x == IF cell = NaN THEN None ELSE ParseFloat(Strip(cell))
    IN  /\ x.some
        /\ ~FracLt(x.val, FromInt(periods[p].start))
        /\ ~FracGt(x.val, FromInt(periods[p].end))

\* df_full[full_mask]: the rows of q whose year lies in period p, in order
RECURSIVE period_full_rows(_, _)
period_full_rows(q, p) ==
    IF q = <<>> THEN <<>>
    ELSE (IF numeric_between(Head(q).year, p) THEN <<Head(q)>> ELSE <<>>)
             \o period_full_rows(Tail(q), p)

\* [extract_number(c) for c in period_full['Channels'].dropna()], without None
RECURSIVE period_channels(_)
period_channels(q) ==
    IF q = <<>> THEN <<>>
    ELSE LET c == timeline_extract_number(Head(q).channels)
         IN  (IF c.some THEN <<c.val>> ELSE <<>>) \o period_channels(Tail(q))

mentions_bluetooth(w) ==
    w # NaN /\ (Contains(Lower(Str(w)), <<"b", "l", "u", "e", "t", "o", "o", "t", "h">>)
                   \/ Contains(Lower(Str(w)), <<"b", "l", "e">>))
mentions_wifi(w) ==
    w # NaN /\ (Contains(Lower(Str(w)), <<"w", "i", "-", "f", "i">>)
                   \/ Contains(Lower(Str(w)), <<"w", "i", "f", "i">>))

\* the four lists of `data` in create_trends_figure, from the prepared table
\* d and the table full read inside the function
trends_data(d, full) ==
    LET InYear(p, r) == periods[p].start <= r.year /\ r.year <= periods[p].end
        period_df(p) == { k \in 1..Len(d) : InYear(p, d[k]) }
        InFull(p, r) == numeric_between(r.year, p)
        period_full(p) == { k \in 1..Len(full) : InFull(p, full[k]) }
        chans(p) == period_channels(period_full_rows(full, p))
        total(p) == Cardinality(period_full(p))
        bt(p) == Cardinality({ k \in period_full(p) : mentions_bluetooth(full[k].wireless) })
        wf(p) == Cardinality({ k \in period_full(p) : mentions_wifi(full[k].wireless) })
    IN  [devices |-> [p \in 1..Len(periods) |-> Cardinality(period_df(p))],
         avg_channels |-> [p \in 1..Len(periods) |->
                              IF chans(p) # <<>>
                              THEN Frac(SumSeq(chans(p)), Len(chans(p))) ELSE Frac(0, 1)],
         pct_bluetooth |-> [p \in 1..Len(periods) |->
                              IF total(p) > 0 THEN Frac(100 * bt(p), total(p)) ELSE Frac(0, 1)],
         pct_wifi |-> [p \in 1..Len(periods) |->
                              IF total(p) > 0 THEN Frac(100 * wf(p), total(p)) ELSE Frac(0, 1)]]

TimelineScatterPng == <<"timeline_scatter.png">>
TimelineBarPng == <<"timeline_bar.png">>
TemporalTrendsPng == <<"temporal_trends.png">>

\* main() is about to run; the catalog is on disk
InitTimeline ==
    /\ script = "generate_timeline"
    /\ pc = "main"
    /\ GradeIdle
    /\ HelperIdle
    /\ GiniIdle
    /\ TrendIdle
    /\ TextIdle
    /\ PdfIdle
    /\ result = None
    /\ csv_file \in TimelineCatalogs
    /\ csv_reads = 0
    /\ devices = <<>>
    /\ prices = <<>>
    /\ faixas = <<>>
    /\ sampling_ranges = <<>>
    /\ clinical_profile = <<>>
    /\ sensor_types = <<>>
    /\ industrial_candidates = <<>>
    /\ df_full = <<>>

\* df = load_and_prepare_data(): pd.read_csv, then the rows that have a year
LoadAndPrepareData ==
    /\ script = "generate_timeline" /\ pc = "main"
    /\ csv_reads' = csv_reads + 1
    /\ df' = prepare_data(csv_file)
    /\ pc' = "loaded"
    /\ UNCHANGED <<script, row, nrows, i, grades, device_grades, result, values, trends,
                   textVars, all_items, value, csv_file, devices, prices, faixas,
                   sampling_ranges, clinical_profile, sensor_types,
                   industrial_candidates, df_full, pdfVars>>

\* create_timeline_scatter(df): df.groupby('year') raises KeyError on the
\* table without columns that an empty list of rows gives
CreateTimelineScatter ==
    /\ script = "generate_timeline" /\ pc = "loaded"
    /\ IF df = <<>>
       THEN /\ pc' = "raised"
            /\ result' = Some("KeyError")
            /\ UNCHANGED opened
       ELSE /\ pc' = "scatter"
            /\ opened' = Append(opened, TimelineScatterPng)
            /\ UNCHANGED result
    /\ UNCHANGED <<script, row, nrows, i, grades, device_grades, values, df, trends,
                   texto_completo, section_positions, sections, files, spans,
                   all_items, value, catalogVars, pdfVars>>

\* create_timeline_bar(df)
CreateTimelineBar ==
    /\ script = "generate_timeline" /\ pc = "scatter"
    /\ pc' = "bar"
    /\ opened' = Append(opened, TimelineBarPng)
    /\ UNCHANGED <<script, row, nrows, i, grades, device_grades, result, values, df, trends,
                   texto_completo, section_positions, sections, files, spans,
                   all_items, value, catalogVars, pdfVars>>

\* create_trends_figure(df): pd.read_csv again into df_full, then the figure
CreateTrendsFigure ==
    /\ script = "generate_timeline" /\ pc = "bar"
    /\ csv_reads' = csv_reads + 1
    /\ df_full' = csv_file
    /\ data' = trends_data(df, df_full')
    /\ opened' = Append(opened, TemporalTrendsPng)
    /\ pc' = "trends"
    /\ UNCHANGED <<script, row, nrows, i, grades, device_grades, result, values, df, trends,
                   texto_completo, section_positions, sections, files, spans,
                   all_items, value, csv_file, devices, prices, faixas,
                   sampling_ranges, clinical_profile, sensor_types,
                   industrial_candidates, doc, pdf_files, processed, json_files, log>>

\* main() prints the three paths and returns
ReturnMain ==
    /\ script = "generate_timeline" /\ pc = "trends"
    /\ pc' = "returned"
    /\ UNCHANGED <<script, row, nrows, i, grades, device_grades, result, values, df, trends,
                   textVars, all_items, value, catalogVars, pdfVars>>

NextTimeline ==
    \/ LoadAndPrepareData
    \/ CreateTimelineScatter
    \/ CreateTimelineBar
    \/ CreateTrendsFigure
    \/ ReturnMain

SpecTimeline == InitTimeline /\ [][NextTimeline]_vars

----------------------------------------------------------------------------
(* extract_pdf_to_json.py *)

\* "\n\n".join(texts) with a single newline between the pages
RECURSIVE join_pages_single_newline(_)
join_pages_single_newline(texts) ==
    IF texts = <<>> THEN <<>>
    ELSE IF Len(texts) = 1 THEN texts[1]
    ELSE texts[1] \o <<"\n">> \o join_pages_single_newline(Tail(texts))

\* "\n\n".join(texts)
RECURSIVE join_pages(_)
join_pages(texts) ==
    IF texts = <<>> THEN <<>>
    ELSE IF Len(texts) = 1 THEN texts[1]
    ELSE texts[1] \o <<"\n", "\n">> \o join_pages(Tail(texts))

\* extract_text_from_pdf(pdf_path) when fitz.open yields the pages d (the text
\* of each page); the date and the metadata of the result are left out
extract_text_from_pdf(pdf_path, d) ==
    LET paginas == [k \in 1..Len(d) |->
                       [numero |-> k, texto |-> Strip(d[k]), caracteres |-> Len(d[k])]]
        texto   == join_pages([k \in 1..Len(paginas) |-> paginas[k].texto])
    IN  [arquivo |-> pdf_path,
         total_paginas |-> Len(d),
         paginas |-> paginas,
         texto_completo |-> texto,
         total_caracteres |-> Len(texto)]

\* pdf_file.stem + ".json"
json_filename(pdf_file) == SubSeq(pdf_file, 1, Len(pdf_file) - 1) \o <<".json">>

\* the entry appended to processed
processed_entry(pdf_file, d) ==
    [pdf |-> pdf_file, json |-> json_filename(pdf_file),
     paginas |-> d.total_paginas, caracteres |-> d.total_caracteres]

\* processed after a try block that got as far as json.dump, with the entry
\* appended whether or not the dump raised
after_dump_always_append(proc, pdf_file, d, raised) ==
    Append(proc, processed_entry(pdf_file, d))

\* processed after a try block that got as far as json.dump: the append at
\* its end is skipped when the dump raised
after_dump(proc, pdf_file, d, raised) ==
    IF raised THEN proc ELSE Append(proc, processed_entry(pdf_file, d))

\* the file a finished json.dump leaves, and the file an interrupted one leaves
CompleteJson(d) == [complete |-> TRUE, content |-> d]
PartialJson(d) == [complete |-> FALSE, content |-> d]

\* the PDFs of the directory: distinct names, each one a stem and ".pdf"
PdfName(k) == <<Digits[k + 1], ".pdf">>
PdfLists == { [k \in 1..n |-> PdfName(k)] : n \in 0..MaxPdfs }

\* the text of a page: a word, or white space only
PageTexts == { <<"x">>, <<" ", "\n">> }
Docs == UNION { [1..n -> PageTexts] : n \in 0..MaxPages }

\* process_all_pdfs(input_dir, output_dir): after input_path.glob("*.pdf")
InitPdf ==
    /\ script = "process_all_pdfs"
    /\ pc = "start"
    /\ GradeIdle
    /\ HelperIdle
    /\ GiniIdle
    /\ TrendIdle
    /\ TextIdle
    /\ CatalogIdle
    /\ result = None
    /\ pdf_files \in PdfLists
    /\ processed = <<>>
    /\ json_files = EmptyDict
    /\ log = <<>>
    /\ data = <<>>
    /\ doc = <<>>

\* `if not pdf_files`: the warning, and the empty list is returned
ReturnNoPdfs ==
    /\ script = "process_all_pdfs" /\ pc = "start"
    /\ pdf_files = <<>>
    /\ log' = Append(log, <<"Nenhum arquivo PDF encontrado">>)
    /\ result' = Some(processed)
    /\ pc' = "returned"
    /\ UNCHANGED <<script, row, nrows, i, grades, device_grades, values, df, trends,
                   textVars, all_items, value, catalogVars,
                   data, doc, pdf_files, processed, json_files>>

\* the loop is entered
FoundPdfs ==
    /\ script = "process_all_pdfs" /\ pc = "start"
    /\ pdf_files # <<>>
    /\ log' = Append(log, <<"Encontrados">>)
    /\ pc' = "loop"
    /\ UNCHANGED <<script, row, nrows, i, grades, device_grades, result, values, df, trends,
                   textVars, all_items, value, catalogVars,
                   data, doc, pdf_files, processed, json_files>>

\* one iteration of `for pdf_file in pdf_files`: the try block runs until one
\* of its calls raises (opening the PDF, opening the JSON for writing,
\* json.dump) or to its end; `except Exception` prints the error
ProcessPdf ==
    /\ script = "process_all_pdfs" /\ pc = "loop"
    /\ i < Len(pdf_files)
    /\ i' = i + 1
    /\ LET pdf_file == pdf_files[i + 1]
           started  == Append(log, <<"Processando", pdf_file>>)
       IN  \/ /\ log' = Append(started, <<"Erro">>)
              /\ UNCHANGED <<data, doc, json_files, processed>>
           \/ \E d \in Docs :
                /\ doc' = d
                /\ data' = extract_text_from_pdf(pdf_file, d)
                /\ \/ /\ log' = Append(started, <<"Erro">>)
                      /\ UNCHANGED <<json_files, processed>>
                   \/ /\ json_files' = DictSet(json_files, json_filename(pdf_file), PartialJson(data'))
                      /\ log' = Append(started, <<"Erro">>)
                      /\ processed' = after_dump(processed, pdf_file, data', TRUE)
                   \/ /\ json_files' = DictSet(json_files, json_filename(pdf_file), CompleteJson(data'))
                      /\ log' = Append(started, <<"Salvo", json_filename(pdf_file)>>)
                      /\ processed' = after_dump(processed, pdf_file, data', FALSE)
    /\ UNCHANGED <<script, pc, row, nrows, grades, device_grades, result, values, df, trends,
                   textVars, all_items, value, catalogVars, pdf_files>>

\* return processed
ReturnProcessed ==
    /\ script = "process_all_pdfs" /\ pc = "loop"
    /\ i = Len(pdf_files)
    /\ result' = Some(processed)
    /\ pc' = "returned"
    /\ UNCHANGED <<script, row, nrows, i, grades, device_grades, values, df, trends,
                   textVars, all_items, value, catalogVars, pdfVars>>

NextPdf == ReturnNoPdfs \/ FoundPdfs \/ ProcessPdf \/ ReturnProcessed

SpecPdf == InitPdf /\ [][NextPdf]_vars

----------------------------------------------------------------------------
(* analyze_prices.py *)

\* re.sub(r'[>\s,]', '', s)
RECURSIVE clean_price(_)
clean_price(s) ==
    IF s = <<>> THEN <<>>
    ELSE IF Head(s) \in {">", ","} \/ IsReSpace(Head(s)) THEN clean_price(Tail(s))
    ELSE <<Head(s)>> \o clean_price(Tail(s))

\* int(s) for the literals [+-]digits; any other text raises ValueError,
\* reported as None
int_of(s) ==
    LET signed == s # <<>> /\ s[1] \in {"+", "-"}
        body   == IF signed THEN Tail(s) ELSE s
    IN  IF body # <<>> /\ DigitRun(body, 1) = Len(body)
        THEN Some(IF signed /\ s[1] = "-" THEN 0 - ToInt(body) ELSE ToInt(body))
        ELSE None

\* the price a device contributes to prices, None when it contributes none
parsed_price(d) ==
    LET price_str == Strip(d.price)
    IN  IF price_str # <<>> /\ price_str # <<"-", "-", "-">>
        THEN int_of(clean_price(price_str))
        ELSE None

\* prices.sort(key=lambda x: x[1])
RECURSIVE InsertByPrice(_, _)
InsertByPrice(q, e) ==
    IF q = <<>> THEN <<e>>
    ELSE IF e.price < Head(q).price THEN <<e>> \o q
    ELSE <<Head(q)>> \o InsertByPrice(Tail(q), e)
RECURSIVE SortByPrice(_)
SortByPrice(q) ==
    IF q = <<>> THEN <<>>
    ELSE InsertByPrice(SortByPrice(SubSeq(q, 1, Len(q) - 1)), q[Len(q)])

\* the keys of faixas
FaixaLabels ==
    { "< $200", "$200 - $500", "$500 - $1000", "$1000 - $2000", "$2000 - $5000",
      "$5000 - $10000", "> $10000" }

\* the if / elif chain with <= in the place of <
price_band_inclusive(price) ==
    IF price <= 200 THEN "< $200"
    ELSE IF price <= 500 THEN "$200 - $500"
    ELSE IF price <= 1000 THEN "$500 - $1000"
    ELSE IF price <= 2000 THEN "$1000 - $2000"
    ELSE IF price <= 5000 THEN "$2000 - $5000"
    ELSE IF price <= 10000 THEN "$5000 - $10000"
    ELSE "> $10000"

\* the key of faixas the if / elif chain increments for a price
price_band(price) ==
    IF price < 200 THEN "< $200"
    ELSE IF price < 500 THEN "$200 - $500"
    ELSE IF price < 1000 THEN "$500 - $1000"
    ELSE IF price < 2000 THEN "$1000 - $2000"
    ELSE IF price < 5000 THEN "$2000 - $5000"
    ELSE IF price < 10000 THEN "$5000 - $10000"
    ELSE "> $10000"

\* the 'Price (USD)' cells of the catalog
PriceStrCells ==
    { <<>>, <<"-", "-", "-">>, <<"$", "5", "0", "0">>, <<"4", "9", "9", ".", "9">>,
      <<"1", "9", "9">>, <<"2", "0", "0">>, <<" ", "5", "0", "0">>,
      <<"1", ",", "0", "0", "0">>, <<"2", "0", "0", "0">>, <<"5", "0", "0", "0">>,
      <<">", " ", "1", "0", ",", "0", "0", "0">> }
PriceDevices == [model : { <<"M">> }, price : PriceStrCells]
PriceCatalogs == UNION { [1..n -> PriceDevices] : n \in 0..MaxDevices }

\* the script is about to run; the catalog is on disk
InitPrices ==
    /\ script = "analyze_prices"
    /\ pc = "read"
    /\ GradeIdle
    /\ HelperIdle
    /\ GiniIdle
    /\ TrendIdle
    /\ TextIdle
    /\ PdfIdle
    /\ result = None
    /\ csv_file \in PriceCatalogs
    /\ csv_reads = 0
    /\ devices = <<>>
    /\ prices = <<>>
    /\ faixas = <<>>
    /\ sampling_ranges = <<>>
    /\ clinical_profile = <<>>
    /\ sensor_types = <<>>
    /\ industrial_candidates = <<>>
    /\ df_full = <<>>

\* devices = list(csv.DictReader(f))
ReadPriceDevices ==
    /\ script = "analyze_prices" /\ pc = "read"
    /\ csv_reads' = csv_reads + 1
    /\ devices' = csv_file
    /\ pc' = "prices"
    /\ UNCHANGED <<script, row, nrows, i, grades, device_grades, result, values, df, trends,
                   textVars, all_items, value, csv_file, prices, faixas,
                   sampling_ranges, clinical_profile, sensor_types,
                   industrial_candidates, df_full, pdfVars>>

\* one iteration of `for d in devices`: the price, when it parses, is appended
ExtractPriceStep ==
    /\ script = "analyze_prices" /\ pc = "prices"
    /\ i < Len(devices)
    /\ i' = i + 1
    /\ LET d == devices[i + 1]
       IN  prices' = IF parsed_price(d).some
                     THEN Append(prices, [model |-> d.model, price |-> parsed_price(d).val])
                     ELSE prices
    /\ UNCHANGED <<script, pc, row, nrows, grades, device_grades, result, values, df, trends,
                   textVars, all_items, value, csv_file, csv_reads, devices, faixas,
                   sampling_ranges, clinical_profile, sensor_types,
                   industrial_candidates, df_full, pdfVars>>

\* the counts are printed, prices is sorted and faixas is created
SortPrices ==
    /\ script = "analyze_prices" /\ pc = "prices"
    /\ i = Len(devices)
    /\ prices' = SortByPrice(prices)
    /\ faixas' = [l \in FaixaLabels |-> 0]
    /\ i' = 0
    /\ pc' = "faixas"
    /\ UNCHANGED <<script, row, nrows, grades, device_grades, result, values, df, trends,
                   textVars, all_items, value, csv_file, csv_reads, devices,
                   sampling_ranges, clinical_profile, sensor_types,
                   industrial_candidates, df_full, pdfVars>>

\* one iteration of `for model, price in prices`
BandStep ==
    /\ script = "analyze_prices" /\ pc = "faixas"
    /\ i < Len(prices)
    /\ i' = i + 1
    /\ faixas' = [faixas EXCEPT ![price_band(prices[i + 1].price)] = @ + 1]
    /\ UNCHANGED <<script, pc, row, nrows, grades, device_grades, result, values, df, trends,
                   textVars, all_items, value, csv_file, csv_reads, devices, prices,
                   sampling_ranges, clinical_profile, sensor_types,
                   industrial_candidates, df_full, pdfVars>>

\* the distribution and the lists are printed; min(price_values) of the
\* statistics raises ValueError when no device has a price
PrintPriceReport ==
    /\ script = "analyze_prices" /\ pc = "faixas"
    /\ i = Len(prices)
    /\ IF prices = <<>>
       THEN pc' = "raised" /\ result' = Some("ValueError")
       ELSE pc' = "done" /\ UNCHANGED result
    /\ UNCHANGED <<script, row, nrows, i, grades, device_grades, values, df, trends,
                   textVars, all_items, value, catalogVars, pdfVars>>

NextPrices ==
    \/ ReadPriceDevices
    \/ ExtractPriceStep
    \/ SortPrices
    \/ BandStep
    \/ PrintPriceReport

SpecPrices == InitPrices /\ [][NextPrices]_vars

----------------------------------------------------------------------------
(* analyze_clinical.py: the report *)

\* a device that fits the clinical profile
ProfileDevice ==
    [model |-> <<"M">>, sampling |-> <<"5", "0", "0", " ", "H", "z">>,
     adc |-> <<"2", "4", "-", "b", "i", "t">>,
     raw |-> <<"A", "v", "a", "i", "l", "a", "b", "l", "e">>,
     sync |-> <<"L", "S", "L">>]

SamplingCells ==
    { <<>>, <<"-", "-", "-">>, <<"2", "5", "5", " ", "H", "z">>, <<"2", "5", "6", "H", "z">>,
      <<"1", "0", "0", "0", " ", "H", "z">>, <<"1", ".", "0", "0", "1", "k", "H", "z">>,
      <<"2", " ", "k", "H", "z">>,
      <<"2", "5", "0", " ", "H", "z", ",", " ", "1", "6", " ", "k", "H", "z">> }
AdcCells == { <<>>, <<"1", "6", "-", "b", "i", "t">> }
RawCells == { <<>>, <<"P", "a", "r", "t", "i", "a", "l">>,
              <<"N", "o", "t", " ", "a", "v", "a", "i", "l", "a", "b", "l", "e">> }
SyncCells == { <<>>, <<"-", "-", "-">> }

\* the rows of the catalog: the profile device, and the devices that differ
\* from it in one cell
ClinicalDevices ==
    {ProfileDevice}
      \cup { [ProfileDevice EXCEPT !.sampling = c] : c \in SamplingCells }
      \cup { [ProfileDevice EXCEPT !.adc = c] : c \in AdcCells }
      \cup { [ProfileDevice EXCEPT !.raw = c] : c \in RawCells }
      \cup { [ProfileDevice EXCEPT !.sync = c] : c \in SyncCells }
ClinicalCatalogs == UNION { [1..n -> ClinicalDevices] : n \in 0..MaxDevices }

\* the two field helpers on the cells of the catalog, computed once per cell
max_sampling_rate_of ==
    [c \in { d.sampling : d \in ClinicalDevices } |-> extract_max_sampling_rate(c)]
adc_resolution_of ==
    [c \in { d.adc : d \in ClinicalDevices } |-> extract_adc_resolution(c)]

\* the keys of sampling_ranges
SamplingLabels ==
    { "< 256 Hz", "256 - 500 Hz", "500 - 1000 Hz", "1 - 2 kHz", "> 2 kHz", "Not specified" }

\* the if / elif chain without its `elif sr <= 500` branch
sampling_range_without_second_band(sr) ==
    IF ~sr.some THEN "Not specified"
    ELSE IF FracLt(sr.val, FromInt(256)) THEN "< 256 Hz"
    ELSE IF ~FracGt(sr.val, FromInt(1000)) THEN "500 - 1000 Hz"
    ELSE IF ~FracGt(sr.val, FromInt(2000)) THEN "1 - 2 kHz"
    ELSE "> 2 kHz"

\* the key of sampling_ranges the if / elif chain increments for sr
sampling_range(sr) ==
    IF ~sr.some THEN "Not specified"
    ELSE IF FracLt(sr.val, FromInt(256)) THEN "< 256 Hz"
    ELSE IF ~FracGt(sr.val, FromInt(500)) THEN "256 - 500 Hz"
    ELSE IF ~FracGt(sr.val, FromInt(1000)) THEN "500 - 1000 Hz"
    ELSE IF ~FracGt(sr.val, FromInt(2000)) THEN "1 - 2 kHz"
    ELSE "> 2 kHz"

\* str(n) for n >= 0
RECURSIVE str_of_int(_)
str_of_int(n) ==
    IF n < 10 THEN <<Digits[n + 1]>>
    ELSE str_of_int(n \div 10) \o <<Digits[(n % 10) + 1]>>

\* s[:n]
Prefix(s, n) == SubSeq(s, 1, IF Len(s) < n THEN Len(s) ELSE n)

AvailableWord == <<"a", "v", "a", "i", "l", "a", "b", "l", "e">>
SyncPrefixLen == 30
ProfileAdcBits == 24
ProfileSamplingHz == 500

\* the test of the clinical profile with the synchronization left out
in_clinical_profile_without_sync(d) ==
    LET adc == adc_resolution_of[d.adc]
        sr  == max_sampling_rate_of[d.sampling]
        raw == Contains(Lower(d.raw), AvailableWord)
    IN  /\ TruthyInt(adc) /\ adc.val >= ProfileAdcBits
        /\ TruthyFloat(sr) /\ ~FracLt(sr.val, FromInt(ProfileSamplingHz))
        /\ raw

\* `if adc and adc >= 24 and sr and sr >= 500 and raw and has_sync`
in_clinical_profile(d) ==
    LET adc  == adc_resolution_of[d.adc]
        sr   == max_sampling_rate_of[d.sampling]
        raw  == Contains(Lower(d.raw), AvailableWord)
        sync == Strip(d.sync)
        has_sync == sync # <<>> /\ sync # <<"-", "-", "-">>
    IN  /\ TruthyInt(adc) /\ adc.val >= ProfileAdcBits
        /\ TruthyFloat(sr) /\ ~FracLt(sr.val, FromInt(ProfileSamplingHz))
        /\ raw
        /\ has_sync

\* (d['Model'], f"{int(sr)}Hz", f"{adc}-bit", sync[:30])
profile_entry(d) ==
    LET adc == adc_resolution_of[d.adc].val
        sr  == max_sampling_rate_of[d.sampling].val
    IN  << d.model,
           str_of_int(sr.num \div sr.den) \o <<"H", "z">>,
           str_of_int(adc) \o <<"-", "b", "i", "t">>,
           Prefix(Strip(d.sync), SyncPrefixLen) >>

\* the script is about to run; the catalog is on disk
InitClinical ==
    /\ script = "analyze_clinical"
    /\ pc = "read"
    /\ GradeIdle
    /\ HelperIdle
    /\ GiniIdle
    /\ TrendIdle
    /\ TextIdle
    /\ PdfIdle
    /\ result = None
    /\ csv_file \in ClinicalCatalogs
    /\ csv_reads = 0
    /\ devices = <<>>
    /\ prices = <<>>
    /\ faixas = <<>>
    /\ sampling_ranges = <<>>
    /\ clinical_profile = <<>>
    /\ sensor_types = <<>>
    /\ industrial_candidates = <<>>
    /\ df_full = <<>>

\* devices = list(csv.DictReader(f))
ReadClinicalDevices ==
    /\ script = "analyze_clinical" /\ pc = "read"
    /\ csv_reads' = csv_reads + 1
    /\ devices' = csv_file
    /\ pc' = "certification"
    /\ UNCHANGED <<script, row, nrows, i, grades, device_grades, result, values, df, trends,
                   textVars, all_items, value, csv_file, prices, faixas,
                   sampling_ranges, clinical_profile, sensor_types,
                   industrial_candidates, df_full, pdfVars>>

\* sections 1 and 2 of the report: the percentage of certified devices
\* divides by len(devices) and raises ZeroDivisionError on an empty catalog;
\* then sampling_ranges is created
CertificationAndRawAccess ==
    /\ script = "analyze_clinical" /\ pc = "certification"
    /\ IF devices = <<>>
       THEN /\ pc' = "raised"
            /\ result' = Some("ZeroDivisionError")
            /\ UNCHANGED sampling_ranges
       ELSE /\ pc' = "sampling"
            /\ sampling_ranges' = [l \in SamplingLabels |-> 0]
            /\ UNCHANGED result
    /\ UNCHANGED <<script, row, nrows, i, grades, device_grades, values, df, trends,
                   textVars, all_items, value, csv_file, csv_reads, devices, prices, faixas,
                   clinical_profile, sensor_types, industrial_candidates, df_full, pdfVars>>

\* one iteration of the loop of section 3
SamplingStep ==
    /\ script = "analyze_clinical" /\ pc = "sampling"
    /\ i < Len(devices)
    /\ i' = i + 1
    /\ LET sr == max_sampling_rate_of[devices[i + 1].sampling]
       IN  sampling_ranges' = [sampling_ranges EXCEPT ![sampling_range(sr)] = @ + 1]
    /\ UNCHANGED <<script, pc, row, nrows, grades, device_grades, result, values, df, trends,
                   textVars, all_items, value, csv_file, csv_reads, devices, prices, faixas,
                   clinical_profile, sensor_types, industrial_candidates, df_full, pdfVars>>

\* the sampling ranges are printed; sections 4 and 5 of the report
AdcAndSynchronization ==
    /\ script = "analyze_clinical" /\ pc = "sampling"
    /\ i = Len(devices)
    /\ i' = 0
    /\ pc' = "profile"
    /\ UNCHANGED <<script, row, nrows, grades, device_grades, result, values, df, trends,
                   textVars, all_items, value, catalogVars, pdfVars>>

\* one iteration of the loop of section 6
ProfileStep ==
    /\ script = "analyze_clinical" /\ pc = "profile"
    /\ i < Len(devices)
    /\ i' = i + 1
    /\ LET d == devices[i + 1]
       IN  clinical_profile' = IF in_clinical_profile(d)
                               THEN Append(clinical_profile, profile_entry(d))
                               ELSE clinical_profile
    /\ UNCHANGED <<script, pc, row, nrows, grades, device_grades, result, values, df, trends,
                   textVars, all_items, value, csv_file, csv_reads, devices, prices, faixas,
                   sampling_ranges, sensor_types, industrial_candidates, df_full, pdfVars>>

\* the profile is printed and the script ends
PrintClinicalProfile ==
    /\ script = "analyze_clinical" /\ pc = "profile"
    /\ i = Len(devices)
    /\ pc' = "done"
    /\ UNCHANGED <<script, row, nrows, i, grades, device_grades, result, values, df, trends,
                   textVars, all_items, value, catalogVars, pdfVars>>

NextClinical ==
    \/ ReadClinicalDevices
    \/ CertificationAndRawAccess
    \/ SamplingStep
    \/ AdcAndSynchronization
    \/ ProfileStep
    \/ PrintClinicalProfile

SpecClinical == InitClinical /\ [][NextClinical]_vars

----------------------------------------------------------------------------
(* analyze_industrial.py *)

SensorTypeCells ==
    { <<>>, <<"D", "r", "y">>, <<"S", "e", "m", "i", "-", "d", "r", "y">>, <<"G", "e", "l">>,
      <<"H", "y", "b", "r", "i", "d">>,
      <<"H", "y", "b", "r", "i", "d", " ", "(", "d", "r", "y", "/", "w", "e", "t", ")">>,
      <<"O", "p", "t", "o", "d", "e", "s">> }
ConnectivityCells == { <<"-", "-", "-">>, <<"B", "l", "u", "e", "t", "o", "o", "t", "h">> }
AuxiliaryCells == { <<"-", "-", "-">>, <<"I", "M", "U">> }
TypeCells == { <<"C", "a", "p">>, <<"E", "E", "G", " ", "h", "e", "a", "d", "s", "e", "t">> }

\* the rows of the catalog, by the columns the script reads
IndustrialDevices ==
    [model : {<<"M">>}, type : TypeCells, sensor : SensorTypeCells,
     conn : ConnectivityCells, aux : AuxiliaryCells, price : {<<"-", "-", "-">>}]
IndustrialCatalogs == UNION { [1..n -> IndustrialDevices] : n \in 0..MaxDevices }

\* the keys of sensor_types
SensorLabels ==
    { "Dry", "Semi-Dry", "Wet (gel/saline)", "Hybrid", "Optodes (fNIRS)", "Unknown" }

DryWord == <<"d", "r", "y">>
SemiWord == <<"s", "e", "m", "i">>
HybridWord == <<"h", "y", "b", "r", "i", "d">>

\* the key of sensor_types the if / elif chain increments for a device
sensor_label(d) ==
    LET sensor == Lower(Strip(d.sensor))
    IN  IF Contains(sensor, DryWord) /\ ~Contains(sensor, SemiWord) /\ ~Contains(sensor, HybridWord)
        THEN "Dry"
        ELSE IF Contains(sensor, SemiWord) THEN "Semi-Dry"
        ELSE IF \/ Contains(sensor, <<"w", "e", "t">>)
                \/ Contains(sensor, <<"g", "e", "l">>)
                \/ Contains(sensor, <<"s", "a", "l", "i", "n", "e">>)
        THEN "Wet (gel/saline)"
        ELSE IF Contains(sensor, HybridWord) THEN "Hybrid"
        ELSE IF Contains(sensor, <<"o", "p", "t", "o", "d", "e">>) THEN "Optodes (fNIRS)"
        ELSE "Unknown"

\* is_dry, is_wireless, has_physio, is_wearable
is_dry(d) ==
    LET sensor == Lower(Strip(d.sensor))
    IN  Contains(sensor, DryWord) \/ Contains(sensor, SemiWord)
is_wireless(d) ==
    LET conn == Lower(Strip(d.conn))
    IN  \/ Contains(conn, <<"b", "l", "u", "e", "t", "o", "o", "t", "h">>)
        \/ Contains(conn, <<"b", "l", "e">>)
        \/ Contains(conn, <<"w", "i", "-", "f", "i">>)
has_physio(d) ==
    LET aux == Lower(Strip(d.aux))
    IN  \/ Contains(aux, <<"i", "m", "u">>)
        \/ Contains(aux, <<"a", "c", "c", "e", "l", "e", "r", "o", "m", "e", "t", "e", "r">>)
        \/ Contains(aux, <<"h", "r">>)
        \/ Contains(aux, <<"p", "p", "g">>)
is_wearable(d) ==
    LET device_type == Lower(Strip(d.type))
    IN  \/ Contains(device_type, <<"h", "e", "a", "d", "s", "e", "t">>)
        \/ Contains(device_type, <<"h", "e", "a", "d", "b", "a", "n", "d">>)
        \/ Contains(device_type, <<"e", "a", "r", "p", "h", "o", "n", "e">>)

\* `if is_dry and is_wireless and (has_physio or is_wearable)`
is_industrial_candidate(d) ==
    is_dry(d) /\ is_wireless(d) /\ (has_physio(d) \/ is_wearable(d))

\* s.title() of a lower-case s: the first letter of every run of letters is
\* upper case
IsLetter(c) == \E k \in 1..26 : Upper[k] = c \/ LowerCase[k] = c
UpperChar(c) == IF \E k \in 1..26 : LowerCase[k] = c
                THEN Upper[CHOOSE k \in 1..26 : LowerCase[k] = c]
                ELSE c
Title(s) ==
    [k \in 1..Len(s) |->
        IF k = 1 \/ ~IsLetter(s[IF k = 1 THEN 1 ELSE k - 1])
        THEN UpperChar(s[k])
        ELSE LowerChar(s[k])]

\* (d['Model'], device_type.title(), price_str)
candidate_entry(d) == << d.model, Title(Lower(Strip(d.type))), d.price >>

\* the script is about to run; the catalog is on disk
InitIndustrial ==
    /\ script = "analyze_industrial"
    /\ pc = "read"
    /\ GradeIdle
    /\ HelperIdle
    /\ GiniIdle
    /\ TrendIdle
    /\ TextIdle
    /\ PdfIdle
    /\ result = None
    /\ csv_file \in IndustrialCatalogs
    /\ csv_reads = 0
    /\ devices = <<>>
    /\ prices = <<>>
    /\ faixas = <<>>
    /\ sampling_ranges = <<>>
    /\ clinical_profile = <<>>
    /\ sensor_types = <<>>
    /\ industrial_candidates = <<>>
    /\ df_full = <<>>

\* devices = list(csv.DictReader(f))
ReadIndustrialDevices ==
    /\ script = "analyze_industrial" /\ pc = "read"
    /\ csv_reads' = csv_reads + 1
    /\ devices' = csv_file
    /\ pc' = "types"
    /\ UNCHANGED <<script, row, nrows, i, grades, device_grades, result, values, df, trends,
                   textVars, all_items, value, csv_file, prices, faixas,
                   sampling_ranges, clinical_profile, sensor_types,
                   industrial_candidates, df_full, pdfVars>>

\* section 1 of the report (the percentages are computed per counted type, so
\* an empty catalog divides nothing); then sensor_types is created
DeviceTypes ==
    /\ script = "analyze_industrial" /\ pc = "types"
    /\ sensor_types' = [l \in SensorLabels |-> 0]
    /\ pc' = "sensor"
    /\ UNCHANGED <<script, row, nrows, i, grades, device_grades, result, values, df, trends,
                   textVars, all_items, value, csv_file, csv_reads, devices, prices, faixas,
                   sampling_ranges, clinical_profile, industrial_candidates, df_full,
                   pdfVars>>

\* one iteration of the loop of section 2
SensorStep ==
    /\ script = "analyze_industrial" /\ pc = "sensor"
    /\ i < Len(devices)
    /\ i' = i + 1
    /\ sensor_types' = [sensor_types EXCEPT ![sensor_label(devices[i + 1])] = @ + 1]
    /\ UNCHANGED <<script, pc, row, nrows, grades, device_grades, result, values, df, trends,
                   textVars, all_items, value, csv_file, csv_reads, devices, prices, faixas,
                   sampling_ranges, clinical_profile, industrial_candidates, df_full,
                   pdfVars>>

\* the sensor types are printed; sections 3 and 4 of the report: the
\* percentage of every connectivity key divides by len(devices) and raises
\* ZeroDivisionError on an empty catalog
ConnectivityAndAuxiliary ==
    /\ script = "analyze_industrial" /\ pc = "sensor"
    /\ i = Len(devices)
    /\ i' = 0
    /\ IF devices = <<>>
       THEN /\ pc' = "raised"
            /\ result' = Some("ZeroDivisionError")
       ELSE /\ pc' = "candidates"
            /\ UNCHANGED result
    /\ UNCHANGED <<script, row, nrows, grades, device_grades, values, df, trends,
                   textVars, all_items, value, catalogVars, pdfVars>>

\* one iteration of the loop of section 5
CandidateStep ==
    /\ script = "analyze_industrial" /\ pc = "candidates"
    /\ i < Len(devices)
    /\ i' = i + 1
    /\ LET d == devices[i + 1]
       IN  industrial_candidates' = IF is_industrial_candidate(d)
                                    THEN Append(industrial_candidates, candidate_entry(d))
                                    ELSE industrial_candidates
    /\ UNCHANGED <<script, pc, row, nrows, grades, device_grades, result, values, df, trends,
                   textVars, all_items, value, csv_file, csv_reads, devices, prices, faixas,
                   sampling_ranges, clinical_profile, sensor_types, df_full, pdfVars>>

\* the candidates are printed and the script ends
PrintIndustrialCandidates ==
    /\ script = "analyze_industrial" /\ pc = "candidates"
    /\ i = Len(devices)
    /\ pc' = "done"
    /\ UNCHANGED <<script, row, nrows, i, grades, device_grades, result, values, df, trends,
                   textVars, all_items, value, catalogVars, pdfVars>>

NextIndustrial ==
    \/ ReadIndustrialDevices
    \/ DeviceTypes
    \/ SensorStep
    \/ ConnectivityAndAuxiliary
    \/ CandidateStep
    \/ PrintIndustrialCandidates

SpecIndustrial == InitIndustrial /\ [][NextIndustrial]_vars

----------------------------------------------------------------------------
(* analyze_table.py: correlations *)

\* `if len(valid) > 2`
MinCorrelationRows == 2

open_api_keywords ==
    { <<"o", "p", "e", "n">>, <<"s", "d", "k">>, <<"a", "p", "i">>, <<"l", "s", "l">>,
      <<"f", "r", "e", "e">> }

\* has_open_api(row)
has_open_api(r) ==
    LET software == Lower(Str(r.software))
        sync     == Lower(Str(r.sync))
        raw_data == Lower(Str(r.raw))
    IN  \E k \in open_api_keywords :
            Contains(software, k) \/ Contains(sync, k) \/ Contains(raw_data, k)

\* is_dry_electrode(row)
is_dry_electrode(r) == Contains(Lower(Str(r.sensor_type)), <<"d", "r", "y">>)

\* the dict appended to data for a row with a study count
correlation_entry(r) ==
    [price         |-> extract_price(r.price),
     channels      |-> extract_number(r.channels, TRUE),
     studies       |-> extract_number(r.studies, TRUE).val,
     open_api      |-> IF has_open_api(r) THEN 1 ELSE 0,
     dry_electrode |-> IF is_dry_electrode(r) THEN 1 ELSE 0]

\* the body of the loop on row r
correlation_step(d, r) ==
    IF extract_number(r.studies, TRUE).some THEN Append(d, correlation_entry(r)) ELSE d

\* df_analysis.dropna(subset=['price', 'studies']) and dropna(subset=['channels',
\* 'studies']): studies is never missing in data
RECURSIVE dropna_price(_)
dropna_price(q) ==
    IF q = <<>> THEN <<>>
    ELSE (IF Head(q).price.some THEN <<Head(q)>> ELSE <<>>) \o dropna_price(Tail(q))
RECURSIVE dropna_channels(_)
dropna_channels(q) ==
    IF q = <<>> THEN <<>>
    ELSE (IF Head(q).channels.some THEN <<Head(q)>> ELSE <<>>) \o dropna_channels(Tail(q))

\* x.corr(y) < 0 for a column x of fractions and a column y of integers: the
\* sign of the Pearson coefficient is the sign of n * sum(x y) - sum(x) sum(y);
\* the coefficient is nan, and not negative, when a column is constant
corr_negative(xs, ys) ==
    LET n   == Len(xs)
        sxy == FracSum([k \in 1..n |-> Frac(xs[k].num * ys[k], xs[k].den)])
        sx  == FracSum(xs)
    IN  FracLt(Frac(n * sxy.num, sxy.den), Frac(sx.num * SumSeq(ys), sx.den))

\* one entry of correlations; the rounded coefficient itself, a float square
\* root, is left out
correlation_of(xs, ys) ==
    [n |-> Len(xs),
     interpretation |-> IF corr_negative(xs, ys) THEN "negativa" ELSE "positiva"]

CorrelationKeys ==
    { "price_vs_adoption", "channels_vs_adoption", "open_api_vs_adoption",
      "dry_electrode_vs_adoption" }

\* the rows and the first column each entry is computed on
correlation_rows(d, key) ==
    CASE key = "price_vs_adoption"    -> dropna_price(d)
      [] key = "channels_vs_adoption" -> dropna_channels(d)
      [] OTHER                        -> d
correlation_column(q, key) ==
    CASE key = "price_vs_adoption"         -> [k \in 1..Len(q) |-> q[k].price.val]
      [] key = "channels_vs_adoption"      -> [k \in 1..Len(q) |-> FromInt(q[k].channels.val)]
      [] key = "open_api_vs_adoption"      -> [k \in 1..Len(q) |-> FromInt(q[k].open_api)]
      [] key = "dry_electrode_vs_adoption" -> [k \in 1..Len(q) |-> FromInt(q[k].dry_electrode)]

\* correlations, for a data with at least one row
correlations_of(d) ==
    [key \in { k \in CorrelationKeys : Len(correlation_rows(d, k)) > MinCorrelationRows } |->
        LET valid == correlation_rows(d, key)
        IN  correlation_of(correlation_column(valid, key),
                           [k \in 1..Len(valid) |-> valid[k].studies])]

CorrPriceCells == { NaN, <<"4", "0", "0">>, <<"9", "9">> }
StudiesCells == { NaN, <<"-", "-", "-">>, <<"0">>, <<"3">> }

\* the rows the catalog can yield: every combination of price, channels and
\* studies for a wet device without open interface, and a dry device with an
\* SDK
CorrRows ==
    [price : CorrPriceCells, channels : { NaN, <<"8">> }, studies : StudiesCells,
     software : {NaN}, sync : {NaN}, raw : {NaN}, sensor_type : { <<"W", "e", "t">> }]
    \cup { [price |-> <<"9", "9">>, channels |-> <<"8">>, studies |-> <<"3">>,
            software |-> <<"S", "D", "K">>, sync |-> NaN, raw |-> NaN,
            sensor_type |-> <<"D", "r", "y">>] }

\* calculate_correlations(df): before the loop
InitCorrelations ==
    /\ script = "calculate_correlations"
    /\ pc = "loop"
    /\ GradeIdle
    /\ CatalogIdle
    /\ PdfIdle
    /\ HelperIdle
    /\ GiniIdle
    /\ TrendIdle
    /\ TextIdle
    /\ result = None

\* one iteration of `for _, row in df.iterrows()`; the table yields row r
CorrelationRow ==
    /\ script = "calculate_correlations" /\ pc = "loop"
    /\ Len(df) < MaxCorrRows
    /\ \E r \in CorrRows :
         /\ df' = Append(df, r)
         /\ data' = correlation_step(data, r)
    /\ UNCHANGED <<script, pc, row, nrows, i, grades, device_grades, result, values, trends,
                   textVars, all_items, value, catalogVars, doc, pdf_files, processed,
                   json_files, log>>

\* the table is exhausted: df_analysis = pd.DataFrame(data) and the four
\* entries. pd.DataFrame([]) has no columns, and dropna(subset=['price',
\* 'studies']) raises KeyError on it
ReturnCorrelations ==
    /\ script = "calculate_correlations" /\ pc = "loop"
    /\ IF data = <<>>
       THEN /\ pc' = "raised"
            /\ result' = Some("KeyError")
       ELSE /\ pc' = "returned"
            /\ result' = Some(correlations_of(data))
    /\ UNCHANGED <<script, row, nrows, i, grades, device_grades, values, df, trends,
                   textVars, all_items, value, catalogVars, pdfVars>>

NextCorrelations == CorrelationRow \/ ReturnCorrelations

SpecCorrelations == InitCorrelations /\ [][NextCorrelations]_vars

----------------------------------------------------------------------------
(* Claims on the grade classification *)

\* the grade the loop recorded for the row of the current iteration
Classified == script = "classify_all_devices" /\ row # NoRow
last_grade == device_grades[Len(device_grades)].grade

SumGrades(g) == g["Consumer"] + g["Research"] + g["Clinical"]

\* C1: classify_grade returns one of Consumer / Research / Clinical for every
\* row, and classify_all_devices returns, for every catalog, one device entry
\* per row with the three counts summing to the number of rows.
C1_GradeTotal ==
    script = "classify_all_devices" =>
        /\ \A k \in 1..Len(device_grades) : device_grades[k].grade \in Grades
        /\ pc \in {"loop", "returned"}
        /\ pc = "returned" =>
              /\ Len(result.val.devices) = nrows
              /\ SumGrades(result.val.counts) = nrows

SameGradeFields(r1, r2) ==
    /\ r1.price = r2.price
    /\ r1.channels = r2.channels
    /\ r1.sensor_type = r2.sensor_type

\* C2 as stated: two rows that agree on price, channels and sensor type get
\* the same grade, whatever their auxiliary capabilities.
C2_GradeFromThreeFields ==
    Classified =>
        \A r2 \in Rows : SameGradeFields(row, r2) => classify_grade(r2) = last_grade

MentionsClinical(r) ==
    \E k \in clinical_keywords : Contains(Lower(Str(r.aux)), k)

\* C2 amended: two rows that agree on price, channels and sensor type, and on
\* whether the auxiliary capabilities mention a clinical keyword, get the
\* same grade.
C2_GradeFromFieldsAndClinical ==
    Classified =>
        \A r2 \in Rows :
            (SameGradeFields(row, r2) /\ MentionsClinical(r2) = MentionsClinical(row))
                => classify_grade(r2) = last_grade

C2_Witness ==
    /\ Classified
    /\ row.aux = <<"I", "M", "U">>
    /\ last_grade = "Consumer"
    /\ \E r2 \in Rows : SameGradeFields(row, r2) /\ r2.aux = NaN

\* the documented criteria, read off the parsed fields
PriceOf(r) == extract_price(r.price)
ChannelsOf(r) == extract_number(r.channels, TRUE)
SensorOf(r) == Lower(Str(r.sensor_type))

DocResearch(r) ==
    \/ PriceOf(r).some /\ FracGt(PriceOf(r).val, FromInt(2000))
    \/ ChannelsOf(r).some /\ ChannelsOf(r).val > 16
    \/ Contains(SensorOf(r), <<"w", "e", "t">>)

DocConsumer(r) ==
    \/ PriceOf(r).some /\ FracLt(PriceOf(r).val, FromInt(500))
    \/ ChannelsOf(r).some /\ ChannelsOf(r).val <= 8
    \/ Contains(SensorOf(r), <<"d", "r", "y">>)
    \/ Contains(SensorOf(r), <<"s", "e", "m", "i">>)

\* C3: a device that is not Clinical and costs more than 2000 USD, or has
\* more than 16 channels, or has wet electrodes, is classified Research.
C3_ResearchCriteria ==
    Classified =>
        ((~MentionsClinical(row) /\ DocResearch(row)) => last_grade = "Research")

\* C4: a device that is neither Clinical nor meets a Research criterion is
\* Consumer when it costs less than 500 USD, or has at most 8 channels, or has
\* dry / semi-dry electrodes; with none of these it is Research.
C4_ConsumerCriteria ==
    Classified =>
        ((~MentionsClinical(row) /\ ~DocResearch(row)) =>
            last_grade = (IF DocConsumer(row) THEN "Consumer" ELSE "Research"))

----------------------------------------------------------------------------
(* Claims on the Gini coefficient *)

\* the Gini coefficient of a list: 1 - 2 * (area under the Lorenz curve
\* through (0,0), (1/n, c1/total), ..., (1, 1)), rounded to 4 decimals
GiniOf(vals) ==
    LET c == CumSum(Sorted(vals))
        n == Len(c)
        twice == c[1] + TrapzTwice(c, 1)
    IN  RoundDiv(10000 * (n * c[n] - twice), n * c[n])

AllEqual(vals) == \A k \in 1..Len(vals) : vals[k] = vals[1]

GiniReturned ==
    script = "calculate_lorenz_gini" /\ pc = "returned" /\ result.some

\* C5: for a non-empty list with positive total calculate_lorenz_gini returns
\* the Gini coefficient of the list (Lorenz area measured from the origin);
\* it lies in [0, 1) and is 0 when all counts are equal.
C5_GiniCoefficient ==
    GiniReturned =>
        /\ result.val.gini = GiniOf(values)
        /\ 0 <= result.val.gini /\ result.val.gini < 10000
        /\ AllEqual(values) => result.val.gini = 0

----------------------------------------------------------------------------
(* Claims on the temporal trends *)

YearOf(r) == extract_number(r.year, TRUE)

\* the rows seen so far whose year lies in [lo, hi]
RowsIn(lo, hi) ==
    { k \in 1..Len(df) : YearOf(df[k]).some /\ lo <= YearOf(df[k]).val /\ YearOf(df[k]).val <= hi }

TrendsRunning == script = "analyze_temporal_trends"

\* C6: each period's 'devices' is the number of rows whose year lies in the
\* inclusive range of the period (rows without a year, or with a year outside
\* 2008..2025, count nowhere), and the four counts sum to at most the number
\* of rows.
C6_TemporalBuckets ==
    TrendsRunning =>
        /\ trends[1].devices = Cardinality(RowsIn(2008, 2014))
        /\ trends[2].devices = Cardinality(RowsIn(2015, 2018))
        /\ trends[3].devices = Cardinality(RowsIn(2019, 2022))
        /\ trends[4].devices = Cardinality(RowsIn(2023, 2025))
        /\ trends[1].devices + trends[2].devices + trends[3].devices
               + trends[4].devices <= Len(df)

C6_Witness ==
    /\ TrendsRunning /\ pc = "returned"
    /\ trends[1].devices = 1
    /\ \E k \in 1..Len(df) : df[k].year = <<"2", "0", "1", "4">>
    /\ \E k \in 1..Len(df) : df[k].year \in {NaN, <<"2", "0", "2", "6">>}

----------------------------------------------------------------------------
(* Claims on the article splitter *)

SplitReturned == script = "split_article_into_sections" /\ pc = "returned"

\* the patterns that match the text somewhere
MatchedPatterns ==
    { k \in 1..Len(section_patterns) : search(texto_completo, section_patterns[k].word).some }

\* the pattern whose first match starts at offset p
PatternAt(p) ==
    { k \in MatchedPatterns : search(texto_completo, section_patterns[k].word).val.start = p }

\* C7: the title span and the section spans are pairwise disjoint and cover
\* the text: the title runs from 0 to the first matched heading, each section
\* from its heading to the next matched heading in text order, the last to
\* the end; the files are numbered 01..k in increasing order of heading
\* position, whatever the order of the pattern list.
C7_Segmentation ==
    SplitReturned =>
        /\ Len(spans) = 1 + Cardinality(MatchedPatterns)
        /\ Len(opened) = Len(spans)
        /\ spans[1].from = 0
        /\ spans[Len(spans)].to = Len(texto_completo)
        /\ \A k \in 1..Len(spans) : spans[k].from <= spans[k].to
        /\ \A k \in 1..(Len(spans) - 1) : spans[k].to = spans[k + 1].from
        /\ \A k \in 2..(Len(spans) - 1) : spans[k].from < spans[k + 1].from
        /\ \A k \in 2..Len(spans) :
               \E n \in PatternAt(spans[k].from) :
                   opened[k] = section_filename(k - 1, section_patterns[n].name)

C7_Witness ==
    /\ SplitReturned
    /\ Len(spans) = 3
    /\ spans[1].to > 0
    /\ opened[2] = section_filename(1, "Method")
    /\ opened[3] = section_filename(2, "Abstract")

\* the text of a span after the line of its heading
AfterHeadingLine(sp) ==
    LET nls == { p \in (sp.from + 1)..sp.to : texto_completo[p] = "\n" }
    IN  IF nls = {} THEN <<>>
        ELSE Slice(texto_completo, CHOOSE p \in nls : \A q \in nls : p <= q, sp.to)

\* C8: the content written for a section (and returned in the dict) is the
\* section text without its heading line, also when nothing follows the
\* heading before the next heading or the end of the document.
C8_HeadingRemoved ==
    script = "split_article_into_sections" =>
        \A k \in 2..Len(spans) :
            /\ files[opened[k]] = Strip(AfterHeadingLine(spans[k]))
            /\ sections[opened[k]] = files[opened[k]]

\* the same, for the sections in which text follows the heading line
C8_HeadingRemovedWhenTextFollows ==
    script = "split_article_into_sections" =>
        \A k \in 2..Len(spans) :
            Strip(AfterHeadingLine(spans[k])) # <<>> =>
                files[opened[k]] = Strip(AfterHeadingLine(spans[k]))

----------------------------------------------------------------------------
(* Claims on the output files *)

\* C9: during one run of a splitter no output path is opened for writing
\* more than once.
C9_WrittenOnce ==
    \A a \in 1..Len(opened) : \A b \in 1..Len(opened) :
        opened[a] = opened[b] => a = b

----------------------------------------------------------------------------
(* Claims on the field helpers *)

Placeholder == <<"-", "-", "-">>

\* C10: extract_price, extract_number, extract_max_sampling_rate and
\* extract_adc_resolution return None (no number, no exception) when the cell
\* is missing (NaN or '' for the pandas helpers, None or '' for the csv
\* helpers) or holds the placeholder '---'.
C10_MissingIsNone ==
    script = "field helpers" =>
        /\ (pc \in {"extract_price", "extract_number(max)", "extract_number(min)"}
                /\ value \in {NaN, <<>>, Placeholder}) => result = None
        /\ (pc \in {"extract_max_sampling_rate", "extract_adc_resolution"}
                /\ value \in {PyNone, <<>>, Placeholder}) => result = None

C10_Witness ==
    /\ script = "field helpers"
    /\ pc = "extract_price"
    /\ value = Placeholder
    /\ result = None

----------------------------------------------------------------------------
(* Claims on reading the catalog *)

\* C11: in one run of a script the device catalog CSV is read from disk
\* exactly once: never a second time, and once by the time the run returns.
C11_ReadOnce ==
    /\ csv_reads <= 1
    /\ (pc = "returned" /\ script = "generate_timeline") => csv_reads = 1

----------------------------------------------------------------------------
(* Claims on the PDF extraction *)

PdfRunning == script = "process_all_pdfs"

\* the JSON of PDF number k was written completely
JsonWritten(k) ==
    /\ json_filename(pdf_files[k]) \in DOMAIN json_files
    /\ json_files[json_filename(pdf_files[k])].complete

\* the PDFs 1..k whose JSON was written, in processing order
RECURSIVE WrittenPdfs(_)
WrittenPdfs(k) ==
    IF k = 0 THEN <<>>
    ELSE WrittenPdfs(k - 1) \o (IF JsonWritten(k) THEN <<pdf_files[k]>> ELSE <<>>)

\* the lines "Processando: <name>" printed so far, in order
Attempted == SelectSeq(log, LAMBDA l : l[1] = "Processando")

\* C12: a failure on one PDF does not stop the loop (every PDF of the
\* directory has been attempted when the call returns), and the returned list
\* holds exactly one entry for each PDF whose JSON was written, in processing
\* order, none for a PDF that failed.
C12_AllPdfsProcessed ==
    PdfRunning =>
        /\ [k \in 1..Len(processed) |-> processed[k].pdf] = WrittenPdfs(i)
        /\ \A k \in 1..Len(processed) : processed[k].json = json_filename(processed[k].pdf)
        /\ pc = "returned" =>
               /\ result = Some(processed)
               /\ [k \in 1..Len(Attempted) |-> Attempted[k][2]] = pdf_files

\* a failure on the first PDF, the second one written, the list returned
C12_Witness ==
    /\ PdfRunning
    /\ pc = "returned"
    /\ Len(pdf_files) >= 2
    /\ ~JsonWritten(1)
    /\ JsonWritten(2)
    /\ Len(processed) = 1

\* the offset of page k in texto_completo
RECURSIVE PageOffset(_, _)
PageOffset(paginas, k) ==
    IF k = 1 THEN 0
    ELSE PageOffset(paginas, k - 1) + Len(paginas[k - 1].texto) + 2

\* C13: the result of extract_text_from_pdf has total_paginas pages numbered
\* 1..n in document order, texto_completo is the page texts in that order with
\* a blank line ("\n\n") between consecutive pages and nothing else, and
\* total_caracteres is the length of texto_completo.
C13_TextPerPage ==
    (PdfRunning /\ data # <<>>) =>
        LET n == Len(data.paginas)
            t == data.texto_completo
        IN  /\ n = data.total_paginas
            /\ n = Len(doc)
            /\ \A k \in 1..n :
                 /\ data.paginas[k].numero = k
                 /\ data.paginas[k].texto = Strip(doc[k])
                 /\ SubSeq(t, PageOffset(data.paginas, k) + 1,
                           PageOffset(data.paginas, k) + Len(data.paginas[k].texto))
                        = data.paginas[k].texto
                 /\ k < n =>
                      SubSeq(t, PageOffset(data.paginas, k + 1) - 1,
                             PageOffset(data.paginas, k + 1)) = <<"\n", "\n">>
            /\ Len(t) = (IF n = 0 THEN 0
                         ELSE PageOffset(data.paginas, n) + Len(data.paginas[n].texto))
            /\ data.total_caracteres = Len(t)

\* a document of two pages, the second one blank
C13_Witness ==
    /\ PdfRunning
    /\ data # <<>>
    /\ data.total_paginas = 2
    /\ data.paginas[1].texto # <<>>
    /\ data.paginas[2].texto = <<>>
    /\ data.total_caracteres = 3

----------------------------------------------------------------------------
(* Claims on the price bands *)

\* the range each band names
InBand(l, price) ==
    CASE l = "< $200"           -> price < 200
      [] l = "$200 - $500"      -> 200 <= price /\ price < 500
      [] l = "$500 - $1000"     -> 500 <= price /\ price < 1000
      [] l = "$1000 - $2000"    -> 1000 <= price /\ price < 2000
      [] l = "$2000 - $5000"    -> 2000 <= price /\ price < 5000
      [] l = "$5000 - $10000"   -> 5000 <= price /\ price < 10000
      [] l = "> $10000"         -> price >= 10000

RECURSIVE SumOver(_, _)
SumOver(f, S) ==
    IF S = {} THEN 0
    ELSE LET x == CHOOSE y \in S : TRUE IN f[x] + SumOver(f, S \ {x})

BandsCounted == script = "analyze_prices" /\ pc \in {"faixas", "done", "raised"}

\* C14: once the prices are extracted, the priced and the unpriced devices
\* sum to all devices; each band counts the prices (of those banded so far)
\* that lie in the range it names, so when the loop ends the seven counts sum
\* to the number of priced devices.
C14_PriceBands ==
    BandsCounted =>
        /\ Len(prices)
             = Cardinality({ k \in 1..Len(devices) : parsed_price(devices[k]).some })
        /\ Len(prices)
             + Cardinality({ k \in 1..Len(devices) : ~parsed_price(devices[k]).some })
             = Len(devices)
        /\ \A l \in FaixaLabels :
             faixas[l] = Cardinality({ k \in 1..i : InBand(l, prices[k].price) })
        /\ SumOver(faixas, FaixaLabels) = i
        /\ pc \in {"done", "raised"} => SumOver(faixas, FaixaLabels) = Len(prices)

\* a finished run with a price on a band boundary and a device without price
C14_Witness ==
    /\ script = "analyze_prices"
    /\ pc = "done"
    /\ Len(devices) = 2
    /\ Len(prices) = 1
    /\ prices[1].price = 200
    /\ faixas["$200 - $500"] = 1

----------------------------------------------------------------------------
(* Claims on the clinical report *)

RateOf(k) == max_sampling_rate_of[devices[k].sampling]

\* the range a label names, its ends included
InRange(l, sr) ==
    CASE l = "Not specified"  -> ~sr.some
      [] l = "< 256 Hz"       -> sr.some /\ FracLt(sr.val, FromInt(256))
      [] l = "256 - 500 Hz"   -> sr.some /\ ~FracLt(sr.val, FromInt(256))
                                         /\ ~FracGt(sr.val, FromInt(500))
      [] l = "500 - 1000 Hz"  -> sr.some /\ ~FracLt(sr.val, FromInt(500))
                                         /\ ~FracGt(sr.val, FromInt(1000))
      [] l = "1 - 2 kHz"      -> sr.some /\ ~FracLt(sr.val, FromInt(1000))
                                         /\ ~FracGt(sr.val, FromInt(2000))
      [] l = "> 2 kHz"        -> sr.some /\ FracGt(sr.val, FromInt(2000))

\* the devices the sampling loop has counted so far
SamplingCounted ==
    IF pc = "sampling" THEN i
    ELSE IF pc \in {"profile", "done"} THEN Len(devices) ELSE 0

\* C15: the six counts sum to the number of devices counted, each device is
\* counted under one label, chosen from its maximum sampling rate, and the
\* rate of a device counted under a label lies in the range the label names.
C15_SamplingBuckets ==
    (script = "analyze_clinical" /\ pc \in {"sampling", "profile", "done"}) =>
        /\ SumOver(sampling_ranges, SamplingLabels) = SamplingCounted
        /\ \A l \in SamplingLabels :
             /\ sampling_ranges[l]
                  = Cardinality({ k \in 1..SamplingCounted : sampling_range(RateOf(k)) = l })
             /\ sampling_ranges[l]
                  <= Cardinality({ k \in 1..SamplingCounted : InRange(l, RateOf(k)) })
        /\ \A k \in 1..SamplingCounted : InRange(sampling_range(RateOf(k)), RateOf(k))

\* a finished run: one device at 256 Hz, one whose largest rate is 16 kHz
C15_Witness ==
    /\ script = "analyze_clinical"
    /\ pc = "done"
    /\ Len(devices) = 2
    /\ sampling_ranges["256 - 500 Hz"] = 1
    /\ sampling_ranges["> 2 kHz"] = 1

\* the profile the report announces: 24 bits or more, 500 Hz or more, raw
\* data access that mentions 'available', a synchronization that is given
AnnouncedProfile(d) ==
    /\ adc_resolution_of[d.adc].some
    /\ adc_resolution_of[d.adc].val >= 24
    /\ max_sampling_rate_of[d.sampling].some
    /\ ~FracLt(max_sampling_rate_of[d.sampling].val, FromInt(500))
    /\ Contains(Lower(d.raw), AvailableWord)
    /\ Strip(d.sync) \notin { <<>>, <<"-", "-", "-">> }

\* the devices the profile loop has seen so far
ProfileSeen ==
    IF pc = "profile" THEN i ELSE IF pc = "done" THEN Len(devices) ELSE 0

\* the devices 1..k that fit the announced profile, in order
RECURSIVE AnnouncedUpTo(_)
AnnouncedUpTo(k) ==
    IF k = 0 THEN <<>>
    ELSE AnnouncedUpTo(k - 1)
             \o (IF AnnouncedProfile(devices[k]) THEN <<devices[k]>> ELSE <<>>)

----------------------------------------------------------------------------
(* Claims on the industrial report *)

\* the devices the sensor loop has counted so far
SensorCounted ==
    IF pc = "sensor" THEN i
    ELSE IF pc \in {"candidates", "done", "raised"} THEN Len(devices) ELSE 0

MentionsHybrid(d) == Contains(Lower(d.sensor), HybridWord)

\* C16: the six counts of sensor_types sum to the number of devices counted
\* (each device is counted under exactly one label), and every device whose
\* sensor type mentions 'hybrid' is counted under Hybrid, so Hybrid counts at
\* least the devices that mention it.
C16_SensorPartition ==
    (script = "analyze_industrial" /\ pc \in {"sensor", "candidates", "done", "raised"}) =>
        /\ DOMAIN sensor_types = SensorLabels
        /\ SumOver(sensor_types, SensorLabels) = SensorCounted
        /\ sensor_types["Hybrid"]
             >= Cardinality({ k \in 1..SensorCounted : MentionsHybrid(devices[k]) })

\* the profile the report announces: `Dry/Semi-Dry + Wireless + IMU ou HR`
AnnouncedIndustrial(d) ==
    /\ \/ Contains(Lower(d.sensor), DryWord)
       \/ Contains(Lower(d.sensor), SemiWord)
    /\ \/ Contains(Lower(d.conn), <<"b", "l", "u", "e", "t", "o", "o", "t", "h">>)
       \/ Contains(Lower(d.conn), <<"b", "l", "e">>)
       \/ Contains(Lower(d.conn), <<"w", "i", "-", "f", "i">>)
    /\ \/ Contains(Lower(d.aux), <<"i", "m", "u">>)
       \/ Contains(Lower(d.aux), <<"a", "c", "c", "e", "l", "e", "r", "o", "m", "e", "t", "e", "r">>)
       \/ Contains(Lower(d.aux), <<"h", "r">>)
       \/ Contains(Lower(d.aux), <<"h", "e", "a", "r", "t">>)
       \/ Contains(Lower(d.aux), <<"p", "p", "g">>)

\* C17: whenever the loop of section 5 appends a device to
\* industrial_candidates, that device has a dry or semi-dry sensor, a wireless
\* connection, and an IMU / accelerometer or heart-rate auxiliary capability.
C17_IndustrialProfile ==
    [][ (/\ script = "analyze_industrial"
         /\ pc = "candidates"
         /\ Len(industrial_candidates') > Len(industrial_candidates))
            => AnnouncedIndustrial(devices[i + 1]) ]_vars

----------------------------------------------------------------------------
(* Claims on the cost per channel *)

\* the devices of a period that have both a price and a positive channel
\* count, as indices of df in order
RECURSIVE CostedRows(_, _)
CostedRows(p, k) ==
    IF k = 0 THEN <<>>
    ELSE CostedRows(p, k - 1)
           \o (IF /\ YearOf(df[k]).some
                  /\ periods[p].start <= YearOf(df[k]).val
                  /\ YearOf(df[k]).val <= periods[p].end
                  /\ TruthyFloat(extract_price(df[k].price))
                  /\ TruthyInt(extract_number(df[k].channels, TRUE))
                  /\ extract_number(df[k].channels, TRUE).val > 0
               THEN <<k>> ELSE <<>>)

\* price / channels of the device of row k
CostOfRow(k) ==
    FracDiv(extract_price(df[k].price).val, extract_number(df[k].channels, TRUE).val)

\* the mean of price / channels over the devices of period p, 0 without any
DeviceCostMean(p) ==
    LET rows == CostedRows(p, Len(df))
    IN  IF rows = <<>> THEN Frac(0, 1)
        ELSE FracDiv(FracSum([j \in 1..Len(rows) |-> CostOfRow(rows[j])]), Len(rows))

FracEq(a, b) == a.num * b.den = b.num * a.den

\* C19: in the returned trends, avg_cost_per_channel of every period is the
\* mean of price / channels over the devices of the period that have both a
\* price and a positive channel count, each price divided by the channel
\* count of the same device.
C19_CostPerDevice ==
    (TrendsRunning /\ pc = "returned") =>
        \A p \in 1..Len(periods) :
            FracEq(trends[p].avg_cost_per_channel, DeviceCostMean(p))

----------------------------------------------------------------------------
(* Claims on the Lorenz curve *)

\* C20: calculate_lorenz_gini returns (None, None) when the list is empty or
\* sums to zero; otherwise the Lorenz curve it returns has one point per
\* value, never decreases, and ends at 1.
C20_LorenzCurve ==
    (script = "calculate_lorenz_gini" /\ pc = "returned") =>
        IF values = <<>> \/ SumSeq(values) = 0
        THEN result = None
        ELSE /\ result.some
             /\ Len(result.val.lorenz) = Len(values)
             /\ \A k \in 1..(Len(values) - 1) :
                  ~FracGt(result.val.lorenz[k], result.val.lorenz[k + 1])
             /\ result.val.lorenz[Len(values)].num = result.val.lorenz[Len(values)].den

\* the curve of an unsorted list with a zero count: 0, 1/3, 1
C20_Witness ==
    /\ script = "calculate_lorenz_gini"
    /\ pc = "returned"
    /\ values = <<2, 0, 1>>
    /\ result.some
    /\ result.val.lorenz = <<Frac(0, 3), Frac(1, 3), Frac(3, 3)>>

----------------------------------------------------------------------------
(* Claims on the correlations *)

\* the rows of df that have a study count and, for the two first entries, a
\* price or a channel count
UsableRows(key) ==
    { k \in 1..Len(df) :
        /\ extract_number(df[k].studies, TRUE).some
        /\ key = "price_vs_adoption" => extract_price(df[k].price).some
        /\ key = "channels_vs_adoption" => extract_number(df[k].channels, TRUE).some }

\* what the claim says of the returned correlations
CorrelationsAsStated(c) ==
    /\ DOMAIN c \subseteq CorrelationKeys
    /\ \A key \in CorrelationKeys :
         /\ key \in DOMAIN c <=> Cardinality(UsableRows(key)) > 2
         /\ key \in DOMAIN c => c[key].n = Cardinality(UsableRows(key))

\* C21: for every table, calculate_correlations ends by returning the
\* correlations, in which an entry is reported only when more than 2 rows are
\* usable for it (rows with a study count and, for price_vs_adoption, a
\* price, for channels_vs_adoption, a channel count) and the n of each entry
\* is the number of those rows.
C21_Correlations ==
    (script = "calculate_correlations" /\ pc # "loop") =>
        /\ pc = "returned"
        /\ CorrelationsAsStated(result.val)

\* the same on the tables in which at least one row has a study count
C21_CorrelationsOfStudiedRows ==
    (script = "calculate_correlations" /\ pc = "returned") =>
        CorrelationsAsStated(result.val)

====
